---- MODULE Spec2Model ----
(***************************************************************************)
(* Model of the WSAA ticket cache of geco-afip                             *)
(* (src/src/services/wsaa.service.ts) and of the part of the certificate   *)
(* store it calls (src/unnamed/part_000, CertificateService), with the     *)
(* store's three ingestion operations and the tax id validation of the     *)
(* registry service (src/src/services/padron.service.ts, validarCUIT).     *)
(*                                                                         *)
(* Time is sampled in whole minutes; every comparison of two instants is   *)
(* computed in milliseconds, as the code computes it.  JavaScript runs a   *)
(* handler to completion between two awaits, so one action is the code     *)
(* between two consecutive awaits of one invocation.                       *)
(***************************************************************************)
EXTENDS Integers, Sequences, FiniteSets, TLC

\* ------------------------------------------------------------------ bounds
\* Last minute the clock reaches.
MaxNow == 2
\* Cap on the number of loginCms requests sent in one behaviour.
MaxRequests == 2
\* Tenants (business ids).  11 is there because "11_" and "1_" share a digit.
Businesses == {1, 11}
Services == {"wsfe", "ws_sr_padron_a5"}
\* Slots for the getTicketAcceso invocations in flight at one time.  The
\* slots are interchangeable, so a new invocation takes the first free one.
Callers == {1, 2}
\* Lifetimes, in minutes, the authority gives a ticket it issues.
AuthorityTTLs == {5, 6}

\* --------------------------------------------------------- program constants
\* Milliseconds in a minute (Date.getTime() counts milliseconds).
MsPerMinute == 60 * 1000
\* 5 * 60 * 1000 in isTicketValid
SafetyMarginMs == 5 * 60 * 1000

\* ------------------------------------------------------------------- values
\* JavaScript null (the not-available result).
Null == [null |-> TRUE]
\* undefined / a falsy argument: businessId 0 and service "" are the falsy
\* values of their types, which clearCache treats like an omitted argument.
NoBusiness == 0
NoService == ""

\* The timestamp (NaN) of an Invalid Date, as new Date(text) gives for a text
\* that is no date.  Every comparison with it is false.
InvalidDate == 0 - 1

\* Decimal digits of a positive integer, most significant first
\* (businessId inside a template literal).
DigitChars == <<"0", "1", "2", "3", "4", "5", "6", "7", "8", "9">>
RECURSIVE Digits(_)
Digits(n) ==
    IF n < 10 THEN <<DigitChars[n + 1]>>
    ELSE Digits(n \div 10) \o <<DigitChars[(n % 10) + 1]>>

\* `${businessId}_${service}`: the characters of the id, "_", the service.
CacheKey(businessId, service) == Digits(businessId) \o <<"_", service>>

\* Variant: the prefix without its "_" separator.
BusinessPrefixBare(businessId) == Digits(businessId)

\* `${businessId}_`, the prefix clearCache(businessId) looks for.
BusinessPrefix(businessId) == Digits(businessId) \o <<"_">>

\* key.startsWith(prefix)
StartsWith(key, prefix) ==
    /\ Len(key) >= Len(prefix)
    /\ SubSeq(key, 1, Len(prefix)) = prefix

\* The (tenant, service) pairs callers ask tickets for: the billing service
\* asks for "wsfe", the registry service for "ws_sr_padron_a5".
Requests == {<<1, "wsfe">>, <<1, "ws_sr_padron_a5">>, <<11, "wsfe">>}

\* Date.prototype.toISOString / JSON.stringify of a Date, and new Date(text).
ToISOString(t) == [iso |-> t]
DateFromISO(text) == text.iso

\* JSON.stringify(ticket) in getTicketAcceso: token, sign and the ISO date.
JsonOfTicket(ticket) ==
    [token |-> ticket.token, sign |-> ticket.sign,
     expirationTime |-> ToISOString(ticket.expirationTime)]

\* A cache file that cannot be read or parsed.
CorruptFile == [garbage |-> TRUE]

IsJsonTicket(content) == "token" \in DOMAIN content

\* Variant: the record read back with token and sign exchanged.
TicketFromDiskSwapped(content) ==
    [token |-> content.sign, sign |-> content.token,
     expirationTime |-> DateFromISO(content.expirationTime),
     generationTime |-> "Invalid Date"]

\* JSON.parse plus the two `new Date(...)` of the disk branch: the record
\* gets a generationTime, which is an Invalid Date since none was saved.
TicketFromDisk(content) ==
    [token |-> content.token, sign |-> content.sign,
     expirationTime |-> DateFromISO(content.expirationTime),
     generationTime |-> "Invalid Date"]

\* A ticket as parseResponse builds it.
NewTicket(token, sign, expirationTime) ==
    [token |-> token, sign |-> sign, expirationTime |-> expirationTime,
     generationTime |-> "undefined"]

VARIABLES
    now,          \* the clock, in minutes
    ticketCache,  \* WSAAService.ticketCache: cache key -> ticket (a Map)
    cacheFiles,   \* the files ta_<key>.json of cacheDir: cache key -> content
    certsCache,   \* CertificateService.certsCache: businessId -> CertificateInfo
    certFiles,    \* per tenant directory: info.json, cert.pem, key.pem
    calls,        \* per caller: the getTicketAcceso invocation it has in flight
    reqCount,     \* loginCms requests sent so far
    last          \* the record of the step a call has just taken (StepRecord),
                  \* NoCall once its caller has gone on

vars == <<now, ticketCache, cacheFiles, certsCache, certFiles, calls, reqCount, last>>

\* ------------------------------------------------------------ Map and files
\* Map.prototype.set / writeFileSync: the entry for k becomes v.
MapSet(m, k, v) == [x \in (DOMAIN m) \cup {k} |-> IF x = k THEN v ELSE m[x]]
\* Map.prototype.delete / unlinkSync of the keys in ks.
MapDeleteAll(m, ks) == [x \in (DOMAIN m) \ ks |-> m[x]]
MapDelete(m, k) == MapDeleteAll(m, {k})
\* new Map() / an empty directory.
EmptyMap == MapDeleteAll(<<>>, {})

\* ------------------------------------------------------------ isTicketValid
\* Variant: a ticket with exactly 5 minutes left still counts as valid.
IsTicketValidInclusive(ticket) ==
    /\ ticket.expirationTime # InvalidDate
    /\ ticket.expirationTime * MsPerMinute - SafetyMarginMs >= now * MsPerMinute

\* Variant: a margin of 6 minutes instead of 5.
IsTicketValidWideMargin(ticket) ==
    /\ ticket.expirationTime # InvalidDate
    /\ ticket.expirationTime * MsPerMinute - 6 * MsPerMinute > now * MsPerMinute

\* Variant: no safety margin, a ticket is valid until it expires.
IsTicketValidNoMargin(ticket) ==
    /\ ticket.expirationTime # InvalidDate
    /\ ticket.expirationTime * MsPerMinute > now * MsPerMinute

\* expirationTime - 5 min > now, on millisecond timestamps.
IsTicketValid(ticket) ==
    /\ ticket.expirationTime # InvalidDate
    /\ ticket.expirationTime * MsPerMinute - SafetyMarginMs > now * MsPerMinute

\* --------------------------------------------------------- certificate store
\* A date field of info.json: an ISO text (ToISOString), a text that is no
\* date, or no field at all.
NoField == [absent |-> TRUE]
NotADate == [text |-> "not a date"]

\* infoData.validTo ? new Date(infoData.validTo) : undefined
DateField(text) ==
    IF text = NoField THEN [defined |-> FALSE]
    ELSE IF "iso" \in DOMAIN text
    THEN [defined |-> TRUE, t |-> DateFromISO(text)]
    ELSE [defined |-> TRUE, t |-> InvalidDate]

\* The three states of a tenant directory the ticket manager can meet.
NoCertDir ==
    [info |-> [exists |-> FALSE, parses |-> FALSE, cuit |-> "",
               validFrom |-> NoField, validTo |-> NoField],
     cert |-> "missing", key |-> "missing", pfx |-> "missing",
     csr |-> "missing"]
\* Complete material; the certificate's validity ends at minute MaxNow.
GoodCertDir ==
    [info |-> [exists |-> TRUE, parses |-> TRUE, cuit |-> "20111111112",
               validFrom |-> ToISOString(0), validTo |-> ToISOString(MaxNow)],
     cert |-> "ok", key |-> "ok", pfx |-> "missing", csr |-> "missing"]
\* The three files exist but cert.pem does not hold a certificate forge can read.
BadPemDir == [GoodCertDir EXCEPT !.cert = "bad"]

CertDirs == {NoCertDir, GoodCertDir, BadPemDir}

\* Variant: an entry of the cache is never taken as usable.
CachedCertUsableNever(cached) == FALSE

\* cached.validTo && cached.validTo > new Date()
CachedCertUsable(cached) ==
    /\ cached.validTo.defined
    /\ cached.validTo.t * MsPerMinute > now * MsPerMinute

\* Variant: only cert.pem is looked for.
PemFilesExistCertOnly(dir) == dir.cert # "missing"

\* fs.existsSync(certInfo.certPath) && fs.existsSync(certInfo.keyPath)
PemFilesExist(dir) == dir.cert # "missing" /\ dir.key # "missing"

\* CertificateService.getCertificateInfo: the value it resolves to, the
\* certsCache it leaves, whether the cache answered (hit) and how many times
\* it read info.json (reads) and the error its catch turned into null
\* (failure).  Its body has no await, so it runs within the step that calls
\* it.
GetCertificateInfo(businessId) ==
    LET hit == /\ businessId \in DOMAIN certsCache
               /\ CachedCertUsable(certsCache[businessId])
        purged == MapDelete(certsCache, businessId)
        dir == certFiles[businessId]
        certInfo == [businessId |-> businessId, cuit |-> dir.info.cuit,
                     validFrom |-> DateField(dir.info.validFrom),
                     validTo |-> DateField(dir.info.validTo)]
    IN  IF hit
        THEN [certInfo |-> certsCache[businessId], certsCache |-> certsCache,
              hit |-> TRUE, reads |-> 0, failure |-> "none"]
        ELSE IF ~dir.info.exists
        THEN [certInfo |-> Null, certsCache |-> purged,
              hit |-> FALSE, reads |-> 0, failure |-> "none"]
        ELSE IF ~dir.info.parses
        THEN [certInfo |-> Null, certsCache |-> purged,
              hit |-> FALSE, reads |-> 1, failure |-> "JSON.parse: SyntaxError"]
        ELSE IF ~PemFilesExist(dir)
        THEN [certInfo |-> Null, certsCache |-> purged,
              hit |-> FALSE, reads |-> 1, failure |-> "none"]
        ELSE [certInfo |-> certInfo,
              certsCache |-> MapSet(purged, businessId, certInfo),
              hit |-> FALSE, reads |-> 1, failure |-> "none"]

\* signTRA: readCertificate, readPrivateKey and forge throw unless both PEM
\* files are there and well formed.  TRUE when a CMS is produced.
SignTRAOk(businessId) ==
    /\ certFiles[businessId].cert = "ok"
    /\ certFiles[businessId].key = "ok"

\* ------------------------------------------------------- the authority's reply
\* How a function ends: it returns a value or throws an Error.
Returned(v) == [threw |-> FALSE, value |-> v]
Thrown(msg) == [threw |-> TRUE, message |-> msg]

\* An element the reply does not carry (a falsy value in parseResponse).
Missing == 0

\* A reply with a transport status of success: the envelope prefix, what the
\* body holds, and the fields of the nested loginTicketResponse.  Texts are
\* given by the markers they contain, which is all the code looks at.
DataReply(prefix, body, loginReturn, credentials, token, sign, expirationTime, faultcode, faultstring) ==
    [kind |-> "data", prefix |-> prefix, body |-> body,
     loginReturn |-> loginReturn, credentials |-> credentials,
     token |-> token, sign |-> sign, expirationTime |-> expirationTime,
     faultcode |-> faultcode, faultstring |-> faultstring]

LoginReply(prefix, token, sign, expirationTime) ==
    DataReply(prefix, "login", TRUE, TRUE, token, sign, expirationTime, {}, {})

FaultReply(prefix, faultcode, faultstring) ==
    DataReply(prefix, "fault", FALSE, FALSE, Missing, Missing,
              [text |-> "missing"], faultcode, faultstring)

\* A reply with an error status: the markers in the first 1000 characters of
\* its body, and those further on.
HttpErrorReply(head, tail) == [kind |-> "httpError", head |-> head, tail |-> tail]
\* No reply at all: connection error or the 30 s timeout.
NetErrorReply == [kind |-> "netError"]

AlreadyMarkers == {"alreadyAuthenticated", "ya posee un TA valido"}

\* sendToAFIP from the point where axios.post settles.
SendToAFIP(reply) ==
    IF reply.kind = "data" THEN Returned(reply)
    ELSE IF reply.kind = "httpError"
    THEN IF reply.head \cap AlreadyMarkers # {}
         THEN Thrown("AFIP ya tiene un ticket valido cacheado en su servidor")
         ELSE Thrown("AFIP WSAA HTTP error")
    ELSE Thrown("network error")

\* The Body element parseResponse finds: it looks up ' soap:Body' (with a
\* leading blank) under soap:Envelope, so only soapenv: and env: are found.
BodyFound(reply) == reply.prefix \in {"soapenv", "env"}

\* new Date(expirationTimeStr)
DateOfText(x) == IF x.text = "iso" THEN x.t ELSE InvalidDate

\* Variant: parseResponse without its check that token, sign and
\* expirationTime are there.
ParseResponseLenient(reply) ==
    IF ~BodyFound(reply) \/ reply.body # "login" \/ ~reply.loginReturn
       \/ ~reply.credentials \/ reply.expirationTime.text # "iso"
    THEN Thrown("Invalid SOAP response structure")
    ELSE Returned(NewTicket(reply.token, reply.sign,
                            DateOfText(reply.expirationTime)))

\* parseResponse
ParseResponse(reply) ==
    IF ~BodyFound(reply) THEN Thrown("Invalid SOAP response structure")
    ELSE IF reply.body # "login"
    THEN IF reply.body = "fault"
         THEN IF \/ "cms.cert.untrusted" \in reply.faultcode
                 \/ "Certificado no emitido" \in reply.faultstring
              THEN Thrown("Certificado no confiable")
              ELSE IF \/ "expired" \in reply.faultstring
                      \/ "expirado" \in reply.faultstring
              THEN Thrown("Certificado expirado")
              ELSE Thrown("AFIP WSAA Fault")
         ELSE Thrown("No loginCmsResponse in SOAP response")
    ELSE IF ~reply.loginReturn THEN Thrown("No loginCmsReturn in response")
    ELSE IF ~reply.credentials THEN Thrown("No credentials in TA response")
    ELSE IF \/ reply.token = Missing
            \/ reply.sign = Missing
            \/ reply.expirationTime.text = "missing"
    THEN Thrown("Missing token, sign or expirationTime in TA")
    ELSE Returned(NewTicket(reply.token, reply.sign,
                            DateOfText(reply.expirationTime)))

\* requestTicketAcceso after sendToAFIP: parseResponse, then the debug line
\* that calls ticket.expirationTime.toISOString(), which throws a RangeError
\* on an Invalid Date.
RequestTicketAccesoTail(reply) ==
    LET sent == SendToAFIP(reply)
        parsed == ParseResponse(sent.value)
    IN  IF sent.threw THEN sent
        ELSE IF parsed.threw THEN parsed
        ELSE IF parsed.value.expirationTime = InvalidDate
        THEN Thrown("Invalid time value")
        ELSE parsed

\* What the authority may answer to request n at the current minute.
GoodReplies(n) ==
    {LoginReply(p, n, n, [text |-> "iso", t |-> now + ttl]) :
        p \in {"soap", "soapenv", "env"}, ttl \in AuthorityTTLs}

MalformedReplies(n) ==
    {LoginReply("soapenv", Missing, n, [text |-> "iso", t |-> now + 6]),
     LoginReply("soapenv", n, Missing, [text |-> "iso", t |-> now + 6]),
     LoginReply("soapenv", n, n, [text |-> "missing"]),
     LoginReply("env", n, n, [text |-> "garbage"]),
     DataReply("env", "login", TRUE, FALSE, n, n, [text |-> "missing"], {}, {}),
     DataReply("env", "login", FALSE, FALSE, n, n, [text |-> "missing"], {}, {}),
     DataReply("soapenv", "none", FALSE, FALSE, Missing, Missing,
               [text |-> "missing"], {}, {})}

FaultReplies ==
    {FaultReply("soapenv", {"cms.cert.untrusted"}, {}),
     FaultReply("env", {}, {"expired"}),
     FaultReply("env", {}, {"ya posee un TA valido"}),
     FaultReply("soapenv", {}, {})}

ErrorReplies ==
    {HttpErrorReply({}, {}),
     HttpErrorReply({"alreadyAuthenticated"}, {}),
     HttpErrorReply({"ya posee un TA valido"}, {}),
     HttpErrorReply({}, {"ya posee un TA valido"}),
     NetErrorReply}

Replies(n) == GoodReplies(n) \cup MalformedReplies(n) \cup FaultReplies \cup ErrorReplies

\* ------------------------------------------------------------- invocations
\* A caller with no getTicketAcceso in flight.
\*   lookups: calls of getCertificateInfo it made; sent: loginCms requests it
\*   sent; reqId: the request it waits on; seen: what it found in the tiers.
NotLooked == [memory |-> "unchecked", disk |-> "unchecked"]

IdleCall ==
    [pc |-> "idle", businessId |-> NoBusiness, service |-> NoService,
     certInfo |-> Null, lookups |-> 0, reqId |-> 0, sent |-> 0,
     seen |-> NotLooked]

NoCall == [step |-> "none"]

\* The message of the Error a function ended with, "none" if it returned.
Failure(r) == IF r.threw THEN r.message ELSE "none"

\* The record of the step just taken by a call: which step, whether the call
\* ended in it and how (settled), where the result came from, the Error
\* caught on the way (failure), whether a file operation failed in it, the
\* invocation's own record with what it found in the two tiers when it
\* started (seen), and the entries the step removed from the tiers or
\* replaced in them (dropped: memory, unlinked: disk).
StepRecord(step, ended, source, settled, failure, fsError, call, dropped, unlinked) ==
    [step |-> step, ended |-> ended,
     businessId |-> call.businessId, service |-> call.service,
     source |-> source, settled |-> settled, failure |-> failure,
     fsError |-> fsError,
     certInfo |-> call.certInfo, lookups |-> call.lookups, sent |-> call.sent,
     seen |-> call.seen, dropped |-> dropped, unlinked |-> unlinked]

\* Variant: the request leaves whether or not a certificate was found.
RequestTicketAccesoSendUnchecked(businessId, certInfo) ==
    [send |-> TRUE, ended |-> Returned(Null)]

\* requestTicketAcceso from the null check on the certificate to the await
\* of axios.post in sendToAFIP: generateTRA, signTRA, the POST.
\*   send = TRUE: a loginCms request leaves; FALSE: the function is over and
\*   `ended` is how it ended.
RequestTicketAccesoSend(businessId, certInfo) ==
    IF certInfo = Null
    THEN [send |-> FALSE, ended |-> Thrown("No certificate found")]
    ELSE IF ~SignTRAOk(businessId)
    THEN [send |-> FALSE, ended |-> Thrown("Error signing TRA")]
    ELSE [send |-> TRUE, ended |-> Returned(Null)]

\* Variant: the catch hands back a ticket without token, sign or expiry.
RequestTicketAccesoCatchEmptyTicket(r) ==
    IF r.threw THEN Returned(NewTicket(Missing, Missing, 0)) ELSE r

\* catch of requestTicketAcceso: log and return null.
RequestTicketAccesoCatch(r) == IF r.threw THEN Returned(Null) ELSE r

\* catch of getTicketAcceso: log and return null.
GetTicketAccesoCatch(r) == IF r.threw THEN Returned(Null) ELSE r

\* getTicketAcceso from its call to the await of axios.post, or to its
\* return when it does not get that far: the memory tier, the disk tier
\* and, when both miss, requestTicketAcceso up to the POST.  The two awaits
\* on the way (getCertificateInfo, whose body has no await, and
\* requestTicketAcceso when it ends early) resume as microtasks of the same
\* turn of the event loop, so no other handler runs in between.
\*   unlinkFails: fs.unlinkSync of an expired record throws (the catch around
\*   the disk branch swallows it).
GetTicketAccesoStart(c, businessId, service, unlinkFails) ==
    LET cacheKey == CacheKey(businessId, service)
        inMemory == cacheKey \in DOMAIN ticketCache
        memoryHit == inMemory /\ IsTicketValid(ticketCache[cacheKey])
        \* this.ticketCache.delete(cacheKey) when the entry expired
        cache1 == IF inMemory /\ ~memoryHit
                  THEN MapDelete(ticketCache, cacheKey) ELSE ticketCache
        onDisk == cacheKey \in DOMAIN cacheFiles
        readable == onDisk /\ IsJsonTicket(cacheFiles[cacheKey])
        cached == TicketFromDisk(cacheFiles[cacheKey])
        diskHit == readable /\ IsTicketValid(cached)
        unlinks == ~memoryHit /\ readable /\ ~diskHit
        files1 == IF unlinks /\ ~unlinkFails
                  THEN MapDelete(cacheFiles, cacheKey) ELSE cacheFiles
        seen == [memory |-> IF ~inMemory THEN "miss"
                            ELSE IF memoryHit THEN "fresh" ELSE "stale",
                 disk |-> IF memoryHit THEN "unchecked"
                          ELSE IF ~onDisk THEN "miss"
                          ELSE IF ~readable THEN "corrupt"
                          ELSE IF diskHit THEN "fresh" ELSE "stale"]
        lookup == GetCertificateInfo(businessId)
        request == RequestTicketAccesoSend(businessId, lookup.certInfo)
        call == [IdleCall EXCEPT !.businessId = businessId, !.service = service,
                                 !.seen = seen]
        asked == [call EXCEPT !.lookups = 1, !.certInfo = lookup.certInfo]
        posted == [asked EXCEPT !.pc = "awaitHttp", !.reqId = reqCount + 1,
                                !.sent = asked.sent + 1]
        dropped == (DOMAIN ticketCache) \ DOMAIN cache1
        unlinked == (DOMAIN cacheFiles) \ DOMAIN files1
    IN  /\ last = NoCall
        /\ calls[c].pc = "idle"
        /\ \A d \in Callers : d < c => calls[d].pc # "idle"
        /\ unlinkFails => unlinks
        /\ IF memoryHit
           THEN /\ last' = StepRecord("start", TRUE, "memory",
                                      Returned(ticketCache[cacheKey]), "none",
                                      FALSE, call, {}, {})
                /\ UNCHANGED <<ticketCache, cacheFiles, certsCache, calls, reqCount>>
           ELSE IF diskHit
           THEN /\ ticketCache' = MapSet(cache1, cacheKey, cached)
                /\ last' = StepRecord("start", TRUE, "disk",
                                      Returned(cached), "none",
                                      FALSE, call, dropped, {})
                /\ UNCHANGED <<cacheFiles, certsCache, calls, reqCount>>
           ELSE /\ ticketCache' = cache1
                /\ cacheFiles' = files1
                /\ certsCache' = lookup.certsCache
                /\ IF request.send
                   THEN /\ reqCount < MaxRequests
                        /\ reqCount' = reqCount + 1
                        /\ calls' = [calls EXCEPT ![c] = posted]
                        /\ last' = StepRecord("start", FALSE, "acquisition",
                                        Returned(Null), "none",
                                        unlinkFails, posted, dropped, unlinked)
                   ELSE /\ last' = StepRecord("start", TRUE, "acquisition",
                                        GetTicketAccesoCatch(
                                            RequestTicketAccesoCatch(request.ended)),
                                        Failure(request.ended),
                                        unlinkFails, asked, dropped, unlinked)
                        /\ UNCHANGED <<calls, reqCount>>
        /\ UNCHANGED <<now, certFiles>>

\* Variant: the acquired ticket is not put in the memory tier.
StoreInMemorySkipped(cache, cacheKey, ticket) == cache

\* Variant: the first ticket stored under a key stays.
StoreInMemoryIfAbsent(cache, cacheKey, ticket) ==
    IF cacheKey \in DOMAIN cache THEN cache ELSE MapSet(cache, cacheKey, ticket)

\* this.ticketCache.set(cacheKey, ticket) after an acquisition.
StoreInMemory(cache, cacheKey, ticket) == MapSet(cache, cacheKey, ticket)

\* Variant: nothing is written to disk.
StoreOnDiskSkipped(files, cacheKey, ticket, writeFails) == files

\* Variant: a file that is already there is left as it is.
StoreOnDiskIfAbsent(files, cacheKey, ticket, writeFails) ==
    IF writeFails \/ cacheKey \in DOMAIN files THEN files
    ELSE MapSet(files, cacheKey, JsonOfTicket(ticket))

\* mkdirSync + writeFileSync inside their try/catch: best effort.
StoreOnDisk(files, cacheKey, ticket, writeFails) ==
    IF writeFails THEN files
    ELSE MapSet(files, cacheKey, JsonOfTicket(ticket))

\* Variant: a failed request is sent once more.
AfterReplyRetry(call, reply) ==
    [resend |-> RequestTicketAccesoTail(reply).threw /\ call.sent < 2,
     ended |-> RequestTicketAccesoTail(reply)]

\* What an invocation does once its request is answered: whether it sends
\* again (it never does: a failure ends the call) and how the try block of
\* requestTicketAcceso ends.
AfterReply(call, reply) ==
    [resend |-> FALSE, ended |-> RequestTicketAccesoTail(reply)]

\* axios.post settles with `reply`: the rest of sendToAFIP and of
\* requestTicketAcceso, then getTicketAcceso from the point where
\* `await this.requestTicketAcceso` resumes to its return (microtasks of the
\* turn in which the reply arrives).
\*   writeFails: mkdirSync or writeFileSync throws.
ReceiveReply(c, reply, writeFails) ==
    LET call == calls[c]
        cacheKey == CacheKey(call.businessId, call.service)
        after == AfterReply(call, reply)
        got == RequestTicketAccesoCatch(after.ended)
        stores == ~got.threw /\ got.value # Null
    IN  /\ last = NoCall
        /\ call.pc = "awaitHttp"
        /\ writeFails => stores
        /\ IF after.resend
           THEN /\ calls' = [calls EXCEPT ![c] = [call EXCEPT !.sent = call.sent + 1]]
                /\ UNCHANGED last
                /\ UNCHANGED <<ticketCache, cacheFiles>>
           ELSE /\ ticketCache' = IF stores
                             THEN StoreInMemory(ticketCache, cacheKey, got.value)
                             ELSE ticketCache
                /\ cacheFiles' = IF stores
                             THEN StoreOnDisk(cacheFiles, cacheKey, got.value, writeFails)
                             ELSE cacheFiles
                /\ calls' = [calls EXCEPT ![c] = IdleCall]
                /\ last' = StepRecord("reply", TRUE, "acquisition",
                                      GetTicketAccesoCatch(got),
                                      Failure(after.ended),
                                      writeFails, call,
                                      IF stores
                                      THEN {cacheKey} \cap DOMAIN ticketCache
                                      ELSE {},
                                      IF stores /\ ~writeFails
                                      THEN {cacheKey} \cap DOMAIN cacheFiles
                                      ELSE {})
        /\ UNCHANGED <<now, certsCache, certFiles, reqCount>>

\* ---------------------------------------------------------------- clearCache
\* One way a clearCache call can end: the two tiers it leaves and whether an
\* unlinkSync threw out of it (nothing in clearCache catches).
ClearOutcome(cache, files, threw) ==
    [ticketCache |-> cache, cacheFiles |-> files, threw |-> threw]

\* The keys clearCache(businessId) sweeps: those of the memory tier that
\* start with `${businessId}_`.
KeysToDelete(businessId) ==
    {key \in DOMAIN ticketCache : StartsWith(key, BusinessPrefix(businessId))}

\* clearCache(businessId, service): the exact key.
ClearExactKey(businessId, service) ==
    LET cacheKey == CacheKey(businessId, service)
        cache1 == MapDelete(ticketCache, cacheKey)
    IN  IF cacheKey \notin DOMAIN cacheFiles
        THEN {ClearOutcome(cache1, cacheFiles, FALSE)}
        ELSE {ClearOutcome(cache1, MapDelete(cacheFiles, cacheKey), FALSE),
              ClearOutcome(cache1, cacheFiles, TRUE)}

\* A sweep over `keys` in some order, deleting the memory entry of each
\* (when perKey) and then unlinking its file if it exists.  Either every
\* unlinkSync succeeds, or one fails at a file f after the keys in `before`
\* were handled: it throws and ends the sweep.  The order is the Map's
\* insertion order, or the directory's order: any order can arise.
Sweep(cache, keys, perKey) ==
    {ClearOutcome(IF perKey THEN MapDeleteAll(cache, keys) ELSE cache,
                  MapDeleteAll(cacheFiles, keys), FALSE)}
    \cup
    UNION {{ClearOutcome(IF perKey THEN MapDeleteAll(cache, before \cup {f})
                                    ELSE cache,
                         MapDeleteAll(cacheFiles, before), TRUE) :
               before \in SUBSET (keys \ {f})} :
           f \in keys \cap DOMAIN cacheFiles}

\* clearCache(businessId): every service of the tenant.
ClearBusiness(businessId) ==
    Sweep(ticketCache, KeysToDelete(businessId), TRUE)

\* clearCache(): this.ticketCache.clear(), then every ta_*.json of cacheDir.
ClearAll == Sweep(EmptyMap, DOMAIN cacheFiles, FALSE)

\* clearCache(businessId?, service?): an argument that is omitted or falsy
\* (0, "") selects the wider sweep.
ClearCacheOutcomes(businessId, service) ==
    IF businessId # NoBusiness /\ service # NoService
    THEN ClearExactKey(businessId, service)
    ELSE IF businessId # NoBusiness
    THEN ClearBusiness(businessId)
    ELSE ClearAll

\* clearCache is synchronous: one step.
ClearCache(businessId, service) ==
    /\ last = NoCall
    /\ \E o \in ClearCacheOutcomes(businessId, service) :
          /\ ticketCache' = o.ticketCache
          /\ cacheFiles' = o.cacheFiles
          /\ last' = StepRecord("clearCache", TRUE, "none",
                                IF o.threw THEN Thrown("unlinkSync failed")
                                ELSE Returned(Null),
                                IF o.threw THEN "unlinkSync failed" ELSE "none",
                                o.threw,
                                [IdleCall EXCEPT !.businessId = businessId,
                                                 !.service = service],
                                (DOMAIN ticketCache) \ DOMAIN o.ticketCache,
                                (DOMAIN cacheFiles) \ DOMAIN o.cacheFiles)
    /\ UNCHANGED <<now, certsCache, certFiles, calls, reqCount>>

\* --------------------------------------------------------------- environment
\* A minute passes.
Tick ==
    /\ last = NoCall
    /\ now < MaxNow
    /\ now' = now + 1
    /\ UNCHANGED <<ticketCache, cacheFiles, certsCache, certFiles, calls, reqCount, last>>

\* The caller of the step just taken goes on (with the result, when its call
\* ended); the next step of the service follows.
Resume ==
    /\ last # NoCall
    /\ last' = NoCall
    /\ UNCHANGED <<now, ticketCache, cacheFiles, certsCache, certFiles, calls, reqCount>>

\* ---------------------------------------------------------------------- Init
\* A ticket a previous run of the process acquired: fresh at minute 0,
\* within the margin from minute 1 on.
PriorTicket == NewTicket(MaxRequests + 1, MaxRequests + 2, 6)

\* What a previous run may have left in cacheDir: nothing, or the file of
\* tenant 1's billing ticket, either a ticket record or an unreadable file.
InitialCacheDirs ==
    {EmptyMap} \cup
    {MapSet(EmptyMap, CacheKey(1, "wsfe"), content) :
        content \in {JsonOfTicket(PriorTicket), CorruptFile}}

\* The tenant directories at start: tenant 1 has its certificate, tenant 11
\* has none, a complete one, or one whose PEM cannot be read.
InitialCertFiles == {f \in [Businesses -> CertDirs] : f[1] = GoodCertDir}

\* The arguments clearCache is called with: a key, a tenant, nothing.
ClearArgs ==
    Requests \cup {<<b, NoService>> : b \in Businesses}
             \cup {<<NoBusiness, NoService>>}

Init ==
    /\ now = 0
    /\ ticketCache = EmptyMap
    /\ cacheFiles \in InitialCacheDirs
    /\ certsCache = EmptyMap
    /\ certFiles \in InitialCertFiles
    /\ calls = [c \in Callers |-> IdleCall]
    /\ reqCount = 0
    /\ last = NoCall

Next ==
    \/ \E c \in Callers, r \in Requests, unlinkFails \in BOOLEAN :
          GetTicketAccesoStart(c, r[1], r[2], unlinkFails)
    \/ \E c \in Callers, writeFails \in BOOLEAN :
          \E reply \in Replies(calls[c].reqId) : ReceiveReply(c, reply, writeFails)
    \/ \E a \in ClearArgs : ClearCache(a[1], a[2])
    \/ Tick
    \/ Resume

Spec == Init /\ [][Next]_vars

\* -------------------------------------- the service on a reliable file system
\* The service when every writeFileSync, mkdirSync and unlinkSync succeeds:
\* the same steps, none of them with a failing file operation.
ReliableNext ==
    \/ \E c \in Callers, r \in Requests :
          GetTicketAccesoStart(c, r[1], r[2], FALSE)
    \/ \E c \in Callers :
          \E reply \in Replies(calls[c].reqId) : ReceiveReply(c, reply, FALSE)
    \/ \E a \in ClearArgs : ClearCache(a[1], a[2]) /\ ~last'.fsError
    \/ Tick
    \/ Resume

ReliableSpec == Init /\ [][ReliableNext]_vars

\* ------------------------------------------- the DELETE /afip/cache handler
\* The ticketCache of the `new wsaa.WSAAService()` the controller builds for
\* each request: a Map of its own, empty.  Its cacheDir is the shared one.
FreshTicketCache == EmptyMap

\* clearCache run on that instance: the cases of WSAAService.clearCache with
\* this.ticketCache the fresh Map.  The instance is dropped afterwards, so
\* only the files and the exception matter.
HandlerClearOutcomes(businessId, service) ==
    IF businessId # NoBusiness /\ service # NoService
    THEN LET cacheKey == CacheKey(businessId, service)
         IN  IF cacheKey \notin DOMAIN cacheFiles
             THEN {ClearOutcome(FreshTicketCache, cacheFiles, FALSE)}
             ELSE {ClearOutcome(FreshTicketCache, MapDelete(cacheFiles, cacheKey), FALSE),
                   ClearOutcome(FreshTicketCache, cacheFiles, TRUE)}
    ELSE IF businessId # NoBusiness
    THEN Sweep(FreshTicketCache,
               {key \in DOMAIN FreshTicketCache :
                   StartsWith(key, BusinessPrefix(businessId))},
               TRUE)
    ELSE Sweep(FreshTicketCache, DOMAIN cacheFiles, FALSE)

\* The body the handler answers with: success (status 200), or the 500 of
\* its catch.
HandlerResponse(threw) == [success |-> ~threw]

\* The controller's clearCache, one synchronous step: businessId and service
\* are the query parameters (NoBusiness when the tenant came in the request
\* body only, which validateBusinessId accepts).  The wsaaService singleton's
\* ticketCache is not touched.
ClearCacheHandler(businessId, service) ==
    /\ last = NoCall
    /\ \E o \in HandlerClearOutcomes(businessId, service) :
          /\ cacheFiles' = o.cacheFiles
          /\ last' = StepRecord("clearCacheHandler", TRUE, "none",
                                Returned(HandlerResponse(o.threw)),
                                IF o.threw THEN "Error clearing cache" ELSE "none",
                                o.threw,
                                [IdleCall EXCEPT !.businessId = businessId,
                                                 !.service = service],
                                {},
                                (DOMAIN cacheFiles) \ DOMAIN o.cacheFiles)
    /\ UNCHANGED <<now, ticketCache, certsCache, certFiles, calls, reqCount>>

\* The query strings the handler is called with: tenant and service, tenant
\* only, or neither.
HandlerArgs ==
    Requests \cup {<<b, NoService>> : b \in Businesses}
             \cup {<<NoBusiness, NoService>>}

\* The service together with its HTTP handler.
HandlerNext ==
    \/ Next
    \/ \E a \in HandlerArgs : ClearCacheHandler(a[1], a[2])

HandlerSpec == Init /\ [][HandlerNext]_vars

\* ------------------------------------------- the replies, one at a time
\* The texts parseResponse and sendToAFIP look for in a reply.
FaultCodeMarkers == {"cms.cert.untrusted"}
FaultStringMarkers ==
    {"Certificado no emitido", "expired", "expirado",
     "ya posee un TA valido", "alreadyAuthenticated"}

\* What the authority may answer to a loginCms request: a ticket, a reply
\* that lacks something, a fault under any of the three envelope prefixes
\* with any of the texts in its code and its string, an error status with
\* the already-issued texts early or late in its body, or nothing.
ReplyInputs ==
    GoodReplies(1) \cup MalformedReplies(1)
    \cup {FaultReply(p, code, str) :
             p \in {"soap", "soapenv", "env"},
             code \in SUBSET FaultCodeMarkers,
             str \in SUBSET FaultStringMarkers}
    \cup {HttpErrorReply(head, tail) :
             head \in SUBSET AlreadyMarkers, tail \in SUBSET AlreadyMarkers}
    \cup {NetErrorReply}

\* A request whose axios.post is about to settle with `reply`.
PendingReply(reply) == [step |-> "axios.post", reply |-> reply]

\* requestTicketAcceso from the reply on: how its try block ends and what its
\* catch makes of it.
SettledReply(reply) ==
    [step |-> "requestTicketAcceso", reply |-> reply,
     ended |-> RequestTicketAccesoTail(reply),
     settled |-> RequestTicketAccesoCatch(RequestTicketAccesoTail(reply))]

\* One request in flight at minute 0, of which the reply is any of ReplyInputs.
ReplyInit ==
    /\ now = 0
    /\ ticketCache = EmptyMap
    /\ cacheFiles = EmptyMap
    /\ certsCache = EmptyMap
    /\ certFiles = [b \in Businesses |-> GoodCertDir]
    /\ calls = [c \in Callers |-> IdleCall]
    /\ reqCount = 1
    /\ last \in {PendingReply(reply) : reply \in ReplyInputs}

\* The reply arrives.
SettleReply ==
    /\ last.step = "axios.post"
    /\ last' = SettledReply(last.reply)
    /\ UNCHANGED <<now, ticketCache, cacheFiles, certsCache, certFiles, calls, reqCount>>

ReplySpec == ReplyInit /\ [][SettleReply]_vars

\* ------------------------------------------- the certificate store alone
\* The tenants whose certificates are ingested, looked up and deleted.
StoreTenants == {1}

\* Tax ids (CUIT) given to an ingestion.
Cuits == {"20111111112", "27222222223"}

\* A PKCS#12 container as saveCertificateFromPfx meets it: whether forge
\* decodes it with the passphrase, whether it holds a certificate bag and a
\* key bag, and the validity window of its certificate, in minutes.
Pfx(decodes, certBag, keyBag, notBefore, notAfter) ==
    [decodes |-> decodes, certBag |-> certBag, keyBag |-> keyBag,
     notBefore |-> notBefore, notAfter |-> notAfter]

PfxInputs ==
    {Pfx(TRUE, TRUE, TRUE, 0, notAfter) : notAfter \in {1, MaxNow + 1}}
    \cup {Pfx(FALSE, FALSE, FALSE, 0, 0),
          Pfx(TRUE, FALSE, TRUE, 0, 0),
          Pfx(TRUE, TRUE, FALSE, 0, 0)}

\* The file operations of saveCertificateFromPfx, any of which may throw.
PfxWrites == {"mkdir", "cert.pem", "key.pem", "info.json"}

\* Variant: the tenant's cached entry is left in place.
InvalidateCachedCertSkipped(cache, businessId) == cache

\* this.certsCache.delete(businessId) at the end of an ingestion.
InvalidateCachedCert(cache, businessId) == MapDelete(cache, businessId)

\* Variant: only the certificate bag is required of the container.
PfxExtractsCertOnly(pfx) == pfx.decodes /\ pfx.certBag

\* The container decodes with the passphrase and both bags are found, so
\* saveCertificateFromPfx gets past its two throws.
PfxExtracts(pfx) == pfx.decodes /\ pfx.certBag /\ pfx.keyBag

\* saveCertificateFromPfx: what it returns, the tenant directory and the
\* certsCache it leaves, and the files its writeFileSync calls wrote.  Its
\* body has no await.  failedWrite is the file operation that throws, "none"
\* if none does; the catch returns false.
SaveCertificateFromPfx(businessId, cuit, pfx, failedWrite) ==
    LET dir == certFiles[businessId]
        info == [exists |-> TRUE, parses |-> TRUE, cuit |-> cuit,
                 validFrom |-> ToISOString(pfx.notBefore),
                 validTo |-> ToISOString(pfx.notAfter)]
        withCert == [dir EXCEPT !.cert = "ok"]
        withKey == [withCert EXCEPT !.key = "ok"]
        withInfo == [withKey EXCEPT !.info = info]
        failed(d, wrote) ==
            [returned |-> FALSE, dir |-> d, certsCache |-> certsCache,
             wrote |-> wrote]
    IN  IF ~PfxExtracts(pfx) THEN failed(dir, {})
        ELSE IF failedWrite \in {"mkdir", "cert.pem"} THEN failed(dir, {})
        ELSE IF failedWrite = "key.pem" THEN failed(withCert, {"cert.pem"})
        ELSE IF failedWrite = "info.json"
        THEN failed(withKey, {"cert.pem", "key.pem"})
        ELSE [returned |-> TRUE, dir |-> withInfo,
              certsCache |-> InvalidateCachedCert(certsCache, businessId),
              wrote |-> {"cert.pem", "key.pem", "info.json"}]

\* Variant: a certificate is valid up to and including its last instant.
IsCertificateValidInclusive(certInfo) ==
    IF certInfo = Null THEN FALSE
    ELSE IF ~certInfo.validTo.defined THEN FALSE
    ELSE certInfo.validTo.t * MsPerMinute >= now * MsPerMinute

\* isCertificateValid after its await of getCertificateInfo.
IsCertificateValid(certInfo) ==
    IF certInfo = Null THEN FALSE
    ELSE IF ~certInfo.validTo.defined THEN FALSE
    ELSE certInfo.validTo.t * MsPerMinute > now * MsPerMinute

\* The files of a tenant directory that exist.
ExistingFiles(dir) ==
    {f \in {"info.json", "cert.pem", "key.pem", "cert.pfx", "request.csr"} :
        \/ f = "info.json" /\ dir.info.exists
        \/ f = "cert.pem" /\ dir.cert # "missing"
        \/ f = "key.pem" /\ dir.key # "missing"
        \/ f = "cert.pfx" /\ dir.pfx # "missing"
        \/ f = "request.csr" /\ dir.csr # "missing"}

\* fs.unlinkSync of each of `files`.
RemoveFiles(dir, files) ==
    [info |-> IF "info.json" \in files THEN NoCertDir.info ELSE dir.info,
     cert |-> IF "cert.pem" \in files THEN "missing" ELSE dir.cert,
     key |-> IF "key.pem" \in files THEN "missing" ELSE dir.key,
     pfx |-> IF "cert.pfx" \in files THEN "missing" ELSE dir.pfx,
     csr |-> IF "request.csr" \in files THEN "missing" ELSE dir.csr]

\* The controller's deleteCertificate: every file of the directory is
\* unlinked, in the directory's order; an unlinkSync that throws ends the
\* loop and leaves the files not yet reached.
DeleteCertificateOutcomes(dir) ==
    {[dir |-> NoCertDir, threw |-> FALSE]}
    \cup {[dir |-> RemoveFiles(dir, removed), threw |-> TRUE] :
             removed \in (SUBSET ExistingFiles(dir)) \ {ExistingFiles(dir)}}

\* The record of the certificate store operation just made: the operation,
\* its tenant and other arguments, what getCertificateInfo resolved to in it,
\* what it returned, the reads of info.json it made, the error
\* getCertificateInfo caught in it (failure), whether the cache held
\* an entry of the tenant before it (cached) and answered (hit), the minute,
\* and the main fields of the record of the operation before it.
Brief(record) ==
    IF record = NoCall THEN NoCall
    ELSE [f \in {"step", "businessId", "input", "returned", "reads", "cached"}
             |-> record[f]]

CertRecord(step, businessId, input, lookup, returned) ==
    [step |-> step, businessId |-> businessId, input |-> input,
     certInfo |-> lookup.certInfo, returned |-> returned,
     reads |-> lookup.reads, hit |-> lookup.hit, failure |-> lookup.failure,
     cached |-> businessId \in DOMAIN certsCache,
     at |-> now, prev |-> Brief(last)]

\* An operation that does not call getCertificateInfo.
NoLookup == [certInfo |-> Null, reads |-> 0, hit |-> FALSE, failure |-> "none"]

\* certificateService.getCertificateInfo(businessId)
LookUpCertificate(businessId) ==
    LET lookup == GetCertificateInfo(businessId)
    IN  /\ certsCache' = lookup.certsCache
        /\ last' = CertRecord("getCertificateInfo", businessId, Null,
                              lookup, lookup.certInfo)
        /\ UNCHANGED <<now, ticketCache, cacheFiles, certFiles, calls, reqCount>>

\* certificateService.isCertificateValid(businessId)
CheckCertificateValid(businessId) ==
    LET lookup == GetCertificateInfo(businessId)
    IN  /\ certsCache' = lookup.certsCache
        /\ last' = CertRecord("isCertificateValid", businessId, Null,
                              lookup, IsCertificateValid(lookup.certInfo))
        /\ UNCHANGED <<now, ticketCache, cacheFiles, certFiles, calls, reqCount>>

\* certificateService.saveCertificateFromPfx(businessId, cuit, pfx, password)
IngestPfx(businessId, cuit, pfx, failedWrite) ==
    LET saved == SaveCertificateFromPfx(businessId, cuit, pfx, failedWrite)
    IN  /\ failedWrite # "none" => pfx.decodes /\ pfx.certBag /\ pfx.keyBag
        /\ failedWrite = "mkdir" => ExistingFiles(certFiles[businessId]) = {}
        /\ certFiles' = [certFiles EXCEPT ![businessId] = saved.dir]
        /\ certsCache' = saved.certsCache
        /\ last' = CertRecord("saveCertificateFromPfx", businessId,
                              [cuit |-> cuit, pfx |-> pfx],
                              NoLookup, saved.returned)
                   @@ [threw |-> FALSE, wrote |-> saved.wrote]
        /\ UNCHANGED <<now, ticketCache, cacheFiles, calls, reqCount>>

\* Variant: the handler also drops the tenant's tickets from both tiers.
DeleteCertificateAndTickets(businessId) ==
    \E o \in DeleteCertificateOutcomes(certFiles[businessId]) :
        /\ certFiles' = [certFiles EXCEPT ![businessId] = o.dir]
        /\ ticketCache' = MapDeleteAll(ticketCache, KeysToDelete(businessId))
        /\ cacheFiles' = MapDeleteAll(cacheFiles, KeysToDelete(businessId))
        /\ last' = CertRecord("deleteCertificate", businessId, Null,
                              NoLookup, [success |-> ~o.threw])
        /\ UNCHANGED <<now, certsCache, calls, reqCount>>

\* DELETE /afip/certificate for the tenant.
DeleteCertificate(businessId) ==
    \E o \in DeleteCertificateOutcomes(certFiles[businessId]) :
        /\ certFiles' = [certFiles EXCEPT ![businessId] = o.dir]
        /\ last' = CertRecord("deleteCertificate", businessId, Null,
                              NoLookup, [success |-> ~o.threw])
        /\ UNCHANGED <<now, ticketCache, cacheFiles, certsCache, calls, reqCount>>

\* A minute passes between two operations of the store.
CertTick ==
    /\ now < MaxNow
    /\ now' = now + 1
    /\ UNCHANGED <<ticketCache, cacheFiles, certsCache, certFiles, calls, reqCount, last>>

\* Tenant directories with an info.json that does not parse, that has no
\* validTo, or whose validTo is no date.
CorruptInfoDir == [GoodCertDir EXCEPT !.info.parses = FALSE]
NoValidToDir == [GoodCertDir EXCEPT !.info.validTo = NoField]
BadDateDir == [GoodCertDir EXCEPT !.info.validTo = NotADate]

InitialStoreDirs == {NoCertDir, GoodCertDir, CorruptInfoDir, NoValidToDir, BadDateDir}

CertInit ==
    /\ now = 0
    /\ ticketCache = EmptyMap
    /\ cacheFiles = EmptyMap
    /\ certsCache = EmptyMap
    /\ certFiles \in {f \in [Businesses -> InitialStoreDirs] :
                        \A b \in Businesses \ StoreTenants : f[b] = NoCertDir}
    /\ calls = [c \in Callers |-> IdleCall]
    /\ reqCount = 0
    /\ last = NoCall

CertNext ==
    \/ \E b \in StoreTenants : LookUpCertificate(b)
    \/ \E b \in StoreTenants : CheckCertificateValid(b)
    \/ \E b \in StoreTenants, cuit \in Cuits, pfx \in PfxInputs,
          failedWrite \in PfxWrites \cup {"none"} :
          IngestPfx(b, cuit, pfx, failedWrite)
    \/ \E b \in StoreTenants : DeleteCertificate(b)
    \/ CertTick

CertSpec == CertInit /\ [][CertNext]_vars

\* ------------------------------------------- ingestion from .crt (and .key)
\* Texts are sequences of characters.  The length of a tax id (CUIT).
CuitLength == 11

IsDigitChar(ch) == \E k \in DOMAIN DigitChars : DigitChars[k] = ch

\* No match of a regular expression (null), and an absent or empty text:
\* both falsy.
NoText == <<>>

\* text.match(/\d{11}/): the leftmost run of eleven digits, NoText if none.
MatchCuit(text) ==
    LET starts == {i \in 1..(Len(text) - (CuitLength - 1)) :
                      \A j \in 0..(CuitLength - 1) : IsDigitChar(text[i + j])}
        first == CHOOSE i \in starts : \A k \in starts : i <= k
    IN  IF starts = {} THEN NoText
        ELSE SubSeq(text, first, first + (CuitLength - 1))

\* cuit.replace(/[^0-9]/g, '')
CleanCuit(text) == SelectSeq(text, IsDigitChar)

\* An attribute of a distinguished name as forge parses it: its name, its
\* short name ("" when the attribute type has none) and its value.
NoShortName == ""
Attribute(name, shortName, value) ==
    [name |-> name, shortName |-> shortName, value |-> value]

\* certificate.subject.getField(sn) with a string argument: forge takes the
\* string as a short name and returns the first attribute that has it, null
\* if none has.
GetField(attributes, sn) ==
    LET hits == {i \in DOMAIN attributes : attributes[i].shortName = sn}
    IN  IF hits = {} THEN Null
        ELSE attributes[CHOOSE i \in hits : \A k \in hits : i <= k]

\* attributes.find(a => a.shortName === fieldName || a.name === fieldName)
FindAttribute(attributes, fieldName) ==
    LET hits == {i \in DOMAIN attributes :
                    \/ attributes[i].shortName = fieldName
                    \/ attributes[i].name = fieldName}
    IN  IF hits = {} THEN Null
        ELSE attributes[CHOOSE i \in hits : \A k \in hits : i <= k]

\* field && field.value ? field.value.match(/\d{11}/) : no match
FieldMatch(field) ==
    IF field = Null THEN NoText
    ELSE IF field.value = NoText THEN NoText
    ELSE MatchCuit(field.value)

\* attributes.map(a => `${a.name || a.shortName}=${a.value}`).join(', ')
RECURSIVE RenderName(_)
RenderName(attributes) ==
    IF attributes = <<>> THEN <<>>
    ELSE LET a == Head(attributes)
             shown == IF a.name # "" THEN a.name ELSE a.shortName
             one == <<shown, "=">> \o a.value
         IN  IF Len(attributes) = 1 THEN one
             ELSE one \o <<",", " ">> \o RenderName(Tail(attributes))

\* The attribute names the third step goes through, in saveCertificateFromCrtKey
\* and in saveCertificateFromCrt.
KnownCuitFieldsCrtKey ==
    <<"serialNumber", "CN", "commonName", "UID", "userId", "SERIALNUMBER",
      "O", "organizationName">>
KnownCuitFieldsCrt ==
    <<"serialNumber", "CN", "commonName", "UID", "userId", "SERIALNUMBER">>

\* The loop over knownCuitFields: the match of the first name whose attribute
\* holds one.
RECURSIVE KnownFieldMatch(_, _)
KnownFieldMatch(attributes, fieldNames) ==
    IF fieldNames = <<>> THEN NoText
    ELSE LET found == FieldMatch(FindAttribute(attributes, Head(fieldNames)))
         IN  IF found # NoText THEN found
             ELSE KnownFieldMatch(attributes, Tail(fieldNames))

\* Steps 1 to 4 of the extraction, over the subject: the serialNumber field,
\* the CN field, the known attribute names, the rendered subject.
CuitFromSubject(subject, knownCuitFields) ==
    LET serialNumberField == GetField(subject, "serialNumber")
        cn == GetField(subject, "CN")
        cnField == IF cn # Null THEN cn ELSE GetField(subject, "commonName")
        step1 == FieldMatch(serialNumberField)
        step2 == FieldMatch(cnField)
        step3 == KnownFieldMatch(subject, knownCuitFields)
        step4 == MatchCuit(RenderName(subject))
    IN  IF step1 # NoText THEN step1
        ELSE IF step2 # NoText THEN step2
        ELSE IF step3 # NoText THEN step3
        ELSE step4

\* The tax id saveCertificateFromCrtKey extracts: steps 1 to 4, then the
\* rendered issuer.  NoText makes it throw.
CuitOfCrtKey(certificate) ==
    LET fromSubject == CuitFromSubject(certificate.subject, KnownCuitFieldsCrtKey)
    IN  IF fromSubject # NoText THEN fromSubject
        ELSE MatchCuit(RenderName(certificate.issuer))

\* Variant: a supplied tax id that does not clean to eleven digits gives way
\* to the extraction from the certificate.
CuitOfCrtFallsBack(certificate, providedCuit) ==
    IF providedCuit # NoText /\ Len(CleanCuit(providedCuit)) = CuitLength
    THEN [threw |-> FALSE, cuit |-> CleanCuit(providedCuit)]
    ELSE LET extracted == CuitFromSubject(certificate.subject, KnownCuitFieldsCrt)
         IN  [threw |-> extracted = NoText, cuit |-> extracted]

\* The tax id of saveCertificateFromCrt: the supplied one, cleaned, which
\* must have eleven digits; without a supplied one, steps 1 to 4.
CuitOfCrt(certificate, providedCuit) ==
    IF providedCuit # NoText
    THEN [threw |-> Len(CleanCuit(providedCuit)) # CuitLength,
          cuit |-> CleanCuit(providedCuit)]
    ELSE LET extracted == CuitFromSubject(certificate.subject, KnownCuitFieldsCrt)
         IN  [threw |-> extracted = NoText, cuit |-> extracted]

\* info.json as the two operations write it.
CrtInfo(cuit, certificate) ==
    [exists |-> TRUE, parses |-> TRUE, cuit |-> cuit,
     validFrom |-> ToISOString(certificate.notBefore),
     validTo |-> ToISOString(certificate.notAfter)]

\* Variant: a failure empties the certificate cache.
CrtOutcomeInvalidating(threw, message, dir, cache, wrote) ==
    [threw |-> threw, returned |-> IF threw THEN Thrown(message) ELSE TRUE,
     dir |-> dir, certsCache |-> IF threw THEN EmptyMap ELSE cache,
     wrote |-> wrote]

\* Variant: the operation returns true whatever happened in it.
CrtOutcomeAlwaysTrue(threw, message, dir, cache, wrote) ==
    [threw |-> FALSE, returned |-> TRUE,
     dir |-> dir, certsCache |-> cache, wrote |-> wrote]

\* How either operation ends: it returns true, or its catch rethrows the
\* error; the directory and certsCache it leaves and the files it wrote.
CrtOutcome(threw, message, dir, cache, wrote) ==
    [threw |-> threw, returned |-> IF threw THEN Thrown(message) ELSE TRUE,
     dir |-> dir, certsCache |-> cache, wrote |-> wrote]

\* saveCertificateFromCrtKey.  Its body has no await.  failedWrite is the
\* file operation that throws, "none" if none does.
SaveCertificateFromCrtKey(businessId, certificate, key, failedWrite) ==
    LET dir == certFiles[businessId]
        cuit == CuitOfCrtKey(certificate)
        withCert == [dir EXCEPT !.cert = "ok"]
        withKey == [withCert EXCEPT !.key = "ok"]
        withPfx == [withKey EXCEPT !.pfx = "ok"]
        withInfo == [withPfx EXCEPT !.info = CrtInfo(cuit, certificate)]
        thrown(message, d, wrote) ==
            CrtOutcome(TRUE, message, d, certsCache, wrote)
    IN  IF failedWrite = "mkdir" THEN thrown("mkdirSync", dir, {})
        ELSE IF ~certificate.parses
        THEN thrown("No se pudo leer el certificado", dir, {})
        ELSE IF ~key.parses
        THEN thrown("No se pudo leer la clave privada", dir, {})
        ELSE IF cuit = NoText
        THEN thrown("No se pudo extraer el CUIT del certificado", dir, {})
        ELSE IF failedWrite = "cert.pem" THEN thrown("writeFileSync", dir, {})
        ELSE IF failedWrite = "key.pem"
        THEN thrown("writeFileSync", withCert, {"cert.pem"})
        ELSE IF failedWrite = "cert.pfx"
        THEN thrown("writeFileSync", withKey, {"cert.pem", "key.pem"})
        ELSE IF failedWrite = "info.json"
        THEN thrown("writeFileSync", withPfx, {"cert.pem", "key.pem", "cert.pfx"})
        ELSE CrtOutcome(FALSE, "", withInfo,
                        InvalidateCachedCert(certsCache, businessId),
                        {"cert.pem", "key.pem", "cert.pfx", "info.json"})

\* Variant: a key.pem in the directory is not looked for.
KeyPemExistsNever(dir) == FALSE

\* fs.existsSync(keyPath) in saveCertificateFromCrt
KeyPemExists(dir) == dir.key # "missing"

\* saveCertificateFromCrt.  Its body has no await.  The key.pem of the
\* directory is used when there is one; otherwise a key is generated and
\* written, before cert.pem.
SaveCertificateFromCrt(businessId, certificate, providedCuit, failedWrite) ==
    LET dir == certFiles[businessId]
        resolved == CuitOfCrt(certificate, providedCuit)
        generates == ~KeyPemExists(dir)
        withKey == IF generates THEN [dir EXCEPT !.key = "ok"] ELSE dir
        keyWrote == IF generates THEN {"key.pem"} ELSE {}
        withCert == [withKey EXCEPT !.cert = "ok"]
        withPfx == [withCert EXCEPT !.pfx = "ok"]
        withInfo == [withPfx EXCEPT !.info = CrtInfo(resolved.cuit, certificate)]
        thrown(message, d, wrote) ==
            CrtOutcome(TRUE, message, d, certsCache, wrote)
    IN  IF failedWrite = "mkdir" THEN thrown("mkdirSync", dir, {})
        ELSE IF ~certificate.parses
        THEN thrown("No se pudo leer el certificado", dir, {})
        ELSE IF resolved.threw
        THEN thrown(IF providedCuit # NoText
                    THEN "El CUIT proporcionado debe tener 11 digitos."
                    ELSE "No se pudo extraer el CUIT del certificado",
                    dir, {})
        ELSE IF ~generates /\ dir.key # "ok"
        THEN thrown("privateKeyFromPem", dir, {})
        ELSE IF generates /\ failedWrite = "key.pem"
        THEN thrown("writeFileSync", dir, {})
        ELSE IF failedWrite = "cert.pem"
        THEN thrown("writeFileSync", withKey, keyWrote)
        ELSE IF failedWrite = "cert.pfx"
        THEN thrown("writeFileSync", withCert, keyWrote \cup {"cert.pem"})
        ELSE IF failedWrite = "info.json"
        THEN thrown("writeFileSync", withPfx,
                    keyWrote \cup {"cert.pem", "cert.pfx"})
        ELSE CrtOutcome(FALSE, "", withInfo,
                        InvalidateCachedCert(certsCache, businessId),
                        keyWrote \cup {"cert.pem", "cert.pfx", "info.json"})

\* certificateService.saveCertificateFromCrtKey(businessId, crt, key, password)
IngestCrtKey(businessId, certificate, key, failedWrite) ==
    LET saved == SaveCertificateFromCrtKey(businessId, certificate, key, failedWrite)
    IN  /\ failedWrite = "mkdir" => ExistingFiles(certFiles[businessId]) = {}
        /\ certFiles' = [certFiles EXCEPT ![businessId] = saved.dir]
        /\ certsCache' = saved.certsCache
        /\ last' = CertRecord("saveCertificateFromCrtKey", businessId,
                              [certificate |-> certificate, key |-> key],
                              NoLookup, saved.returned)
                   @@ [threw |-> saved.threw, wrote |-> saved.wrote]
        /\ UNCHANGED <<now, ticketCache, cacheFiles, calls, reqCount>>

\* certificateService.saveCertificateFromCrt(businessId, crt, password, cuit)
IngestCrt(businessId, certificate, providedCuit, failedWrite) ==
    LET saved == SaveCertificateFromCrt(businessId, certificate, providedCuit,
                                        failedWrite)
    IN  /\ failedWrite = "mkdir" => ExistingFiles(certFiles[businessId]) = {}
        /\ certFiles' = [certFiles EXCEPT ![businessId] = saved.dir]
        /\ certsCache' = saved.certsCache
        /\ last' = CertRecord("saveCertificateFromCrt", businessId,
                              [certificate |-> certificate,
                               providedCuit |-> providedCuit],
                              NoLookup, saved.returned)
                   @@ [threw |-> saved.threw, wrote |-> saved.wrote,
                       hadKey |-> certFiles[businessId].key # "missing"]
        /\ UNCHANGED <<now, ticketCache, cacheFiles, calls, reqCount>>

\* The file operations of generateCSR, any of which may throw.
CsrWrites == {"mkdir", "key.pem", "request.csr"}

\* generateCSR: a key pair is generated, its private key written to key.pem
\* (over the one that is there) and the request to request.csr; it returns
\* the request, or null from its catch.  Its body has no await; it does not
\* touch certsCache.
GenerateCSRResult(businessId, failedWrite) ==
    LET dir == certFiles[businessId]
        withKey == [dir EXCEPT !.key = "ok"]
        withCsr == [withKey EXCEPT !.csr = "ok"]
    IN  IF failedWrite \in {"mkdir", "key.pem"}
        THEN [returned |-> Null, dir |-> dir, wrote |-> {}]
        ELSE IF failedWrite = "request.csr"
        THEN [returned |-> Null, dir |-> withKey, wrote |-> {"key.pem"}]
        ELSE [returned |-> [csrPem |-> TRUE], dir |-> withCsr,
              wrote |-> {"key.pem", "request.csr"}]

\* certificateService.generateCSR(businessId, cuit, organizationName)
GenerateCSR(businessId, failedWrite) ==
    LET made == GenerateCSRResult(businessId, failedWrite)
    IN  /\ failedWrite = "mkdir" => ExistingFiles(certFiles[businessId]) = {}
        /\ certFiles' = [certFiles EXCEPT ![businessId] = made.dir]
        /\ last' = CertRecord("generateCSR", businessId, Null,
                              NoLookup, made.returned)
                   @@ [threw |-> FALSE, wrote |-> made.wrote]
        /\ UNCHANGED <<now, ticketCache, cacheFiles, certsCache, calls, reqCount>>

\* Tax ids as texts, and texts that hold them.
CuitA == <<"2", "0", "1", "1", "1", "1", "1", "1", "1", "1", "2">>
CuitB == <<"2", "7", "2", "2", "2", "2", "2", "2", "2", "2", "3">>
CuitC == <<"3", "0", "3", "3", "3", "3", "3", "3", "3", "3", "4">>
Labelled(cuit) == <<"C", "U", "I", "T", " ">> \o cuit
Hyphenated(cuit) ==
    SubSeq(cuit, 1, 2) \o <<"-">> \o SubSeq(cuit, 3, 10) \o <<"-">>
        \o SubSeq(cuit, 11, 11)
Alias == <<"g", "e", "c", "o">>

\* The certificates uploaded: what forge reads in them.
Certificate(parses, subject, issuer) ==
    [parses |-> parses, subject |-> subject, issuer |-> issuer,
     notBefore |-> 0, notAfter |-> MaxNow + 1]

AuthorityName == <<Attribute("commonName", "CN", <<"A", "C">>)>>
NumberedAuthorityName ==
    <<Attribute("commonName", "CN", <<"A", "C", " ">> \o CuitC)>>

\* An alias as common name and the tax id in serialNumber, as the authority
\* issues them; both fields with a number; the number in an attribute of the
\* known names, in one outside them, in the issuer only, nowhere; a file
\* that is no certificate.
Certificates ==
    {Certificate(TRUE, <<Attribute("commonName", "CN", Alias),
                         Attribute("serialNumber", NoShortName, Labelled(CuitA))>>,
                 AuthorityName),
     Certificate(TRUE, <<Attribute("serialNumber", NoShortName, Labelled(CuitA)),
                         Attribute("commonName", "CN", CuitB)>>,
                 AuthorityName),
     Certificate(TRUE, <<Attribute("commonName", "CN", Alias),
                         Attribute("organizationName", "O", CuitC)>>,
                 AuthorityName),
     Certificate(TRUE, <<Attribute("commonName", "CN", Alias),
                         Attribute("organizationalUnitName", "OU", CuitC)>>,
                 AuthorityName),
     Certificate(TRUE, <<Attribute("commonName", "CN", Alias)>>,
                 NumberedAuthorityName),
     Certificate(TRUE, <<Attribute("commonName", "CN", Alias)>>, AuthorityName),
     Certificate(FALSE, <<>>, <<>>)}

KeyInputs == {[parses |-> TRUE], [parses |-> FALSE]}

\* The cuit of the request body: none, eleven digits, eleven digits with
\* hyphens, too few digits.
ProvidedCuits == {NoText, CuitB, Hyphenated(CuitB), SubSeq(CuitB, 1, 4)}

CrtWrites == {"mkdir", "cert.pem", "key.pem", "cert.pfx", "info.json"}

\* The store with its three ingestion operations, generateCSR and the
\* lookup; the caller goes on after each (Resume).
UploadInit ==
    /\ now = 0
    /\ ticketCache = EmptyMap
    /\ cacheFiles = EmptyMap
    /\ certsCache = EmptyMap
    /\ certFiles = [b \in Businesses |-> NoCertDir]
    /\ calls = [c \in Callers |-> IdleCall]
    /\ reqCount = 0
    /\ last = NoCall

UploadNext ==
    \/ /\ last = NoCall
       /\ \E b \in StoreTenants, cuit \in {CuitA, CuitB}, pfx \in PfxInputs,
             failedWrite \in PfxWrites \cup {"none"} :
             IngestPfx(b, cuit, pfx, failedWrite)
    \/ /\ last = NoCall
       /\ \E b \in StoreTenants, certificate \in Certificates, key \in KeyInputs,
             failedWrite \in CrtWrites \cup {"none"} :
             IngestCrtKey(b, certificate, key, failedWrite)
    \/ /\ last = NoCall
       /\ \E b \in StoreTenants, certificate \in Certificates,
             providedCuit \in ProvidedCuits,
             failedWrite \in CrtWrites \cup {"none"} :
             IngestCrt(b, certificate, providedCuit, failedWrite)
    \/ /\ last = NoCall
       /\ \E b \in StoreTenants, failedWrite \in CsrWrites \cup {"none"} :
             GenerateCSR(b, failedWrite)
    \/ /\ last = NoCall
       /\ \E b \in StoreTenants : LookUpCertificate(b)
    \/ Resume

UploadSpec == UploadInit /\ [][UploadNext]_vars

\* ------------------------------------ the tax id extraction, one certificate
\* The attributes the certificates are made of: an alias or a number as
\* common name, the labelled number as serialNumber, a number as
\* organization or as organizational unit.
SubjectAttributes ==
    {Attribute("commonName", "CN", Alias),
     Attribute("commonName", "CN", CuitB),
     Attribute("serialNumber", NoShortName, Labelled(CuitA)),
     Attribute("organizationName", "O", CuitC),
     Attribute("organizationalUnitName", "OU", CuitA),
     Attribute("organizationalUnitName", "OU", Alias)}

\* Longest subject, in attributes.
MaxSubject == 2

\* Subjects of up to MaxSubject different attributes, in any order.
Subjects ==
    {subject \in UNION {[1..n -> SubjectAttributes] : n \in 0..MaxSubject} :
        \A i, j \in DOMAIN subject : i # j => subject[i] # subject[j]}

\* Certificates that forge reads, issued by an authority whose name holds a
\* number or none.
ExtractInputs ==
    {Certificate(TRUE, subject, issuer) :
        subject \in Subjects, issuer \in {AuthorityName, NumberedAuthorityName}}

\* A certificate uploaded without a tax id, before either operation has
\* looked for one in it.
PendingExtraction(certificate) ==
    [step |-> "upload", certificate |-> certificate]

\* What each of the two operations makes of the certificate: the tax id it
\* goes on with, or the throw of its "no se pudo extraer el CUIT".
Extraction(certificate) ==
    [step |-> "extraction", certificate |-> certificate,
     crtKey |-> [threw |-> CuitOfCrtKey(certificate) = NoText,
                 cuit |-> CuitOfCrtKey(certificate)],
     crt |-> CuitOfCrt(certificate, NoText)]

ExtractInit ==
    /\ now = 0
    /\ ticketCache = EmptyMap
    /\ cacheFiles = EmptyMap
    /\ certsCache = EmptyMap
    /\ certFiles = [b \in Businesses |-> NoCertDir]
    /\ calls = [c \in Callers |-> IdleCall]
    /\ reqCount = 0
    /\ last \in {PendingExtraction(certificate) : certificate \in ExtractInputs}

\* Both operations extract the tax id of the certificate.
ExtractCuit ==
    /\ last.step = "upload"
    /\ last' = Extraction(last.certificate)
    /\ UNCHANGED <<now, ticketCache, cacheFiles, certsCache, certFiles, calls, reqCount>>

ExtractSpec == ExtractInit /\ [][ExtractCuit]_vars

\* ------------------------------------------------- the signing requests
\* 12 * 60 * 60 * 1000 in generateTRA
TwelveHoursMs == 12 * 60 * 60 * 1000

\* generateTRA(service) when `new Date()` is the instant nowMs, in
\* milliseconds: uniqueId is Math.floor(now.getTime() / 1000), the two times
\* are ISO texts, the service is the one asked for.
GenerateTRA(service, nowMs) ==
    [uniqueId |-> nowMs \div 1000,
     generationTime |-> ToISOString(nowMs),
     expirationTime |-> ToISOString(nowMs + TwelveHoursMs),
     service |-> service]

\* The instants, in milliseconds, at which acquisitions build their
\* requests: within one second, across a second, a minute later.
RequestInstants == {0, 1, 400, 999, 1000, 1500, 60000}

\* An acquisition that has reached generateTRA: its tenant, its service and
\* the instant.
Acquisition(businessId, service, at) ==
    [businessId |-> businessId, service |-> service, at |-> at]

\* Two acquisitions, for the same key or for different ones, the second not
\* earlier than the first.
AcquisitionPairs ==
    {pair \in {<<Acquisition(r1[1], r1[2], t1), Acquisition(r2[1], r2[2], t2)>> :
                  r1 \in Requests, r2 \in Requests,
                  t1 \in RequestInstants, t2 \in RequestInstants} :
        pair[1].at <= pair[2].at}

TraInit ==
    /\ now = 0
    /\ ticketCache = EmptyMap
    /\ cacheFiles = EmptyMap
    /\ certsCache = EmptyMap
    /\ certFiles = [b \in Businesses |-> GoodCertDir]
    /\ calls = [c \in Callers |-> IdleCall]
    /\ reqCount = 0
    /\ last \in {[step |-> "acquisitions", pair |-> pair] : pair \in AcquisitionPairs}

\* Each of the two acquisitions builds its signing request.
BuildRequests ==
    /\ last.step = "acquisitions"
    /\ last' = [step |-> "generateTRA", pair |-> last.pair,
                tra |-> [i \in {1, 2} |->
                            GenerateTRA(last.pair[i].service, last.pair[i].at)]]
    /\ UNCHANGED <<now, ticketCache, cacheFiles, certsCache, certFiles, calls, reqCount>>

TraSpec == TraInit /\ [][BuildRequests]_vars

\* --------------------------- the ticket service next to the certificate store
\* One tenant with its certificate in place, its billing tickets, and the
\* store operations the HTTP handlers run on its directory while the ticket
\* service works.
Tenant == 1
TenantService == "wsfe"

\* What is uploaded for the tenant: a container and a certificate with a new
\* tax id, valid beyond the last minute.
TenantPfx == Pfx(TRUE, TRUE, TRUE, 0, MaxNow + 1)
TenantCertificate ==
    Certificate(TRUE, <<Attribute("commonName", "CN", Alias),
                        Attribute("organizationName", "O", CuitC)>>,
                AuthorityName)

TenantInit ==
    /\ now = 0
    /\ ticketCache = EmptyMap
    /\ cacheFiles \in InitialCacheDirs
    /\ certsCache = EmptyMap
    /\ certFiles = [b \in Businesses |-> IF b = Tenant THEN GoodCertDir ELSE NoCertDir]
    /\ calls = [c \in Callers |-> IdleCall]
    /\ reqCount = 0
    /\ last = NoCall

\* The ticket service for the tenant, without failing file operations, and
\* the operations of the certificate store, each one synchronous step, none
\* of them with a failing file operation either.
TenantNext ==
    \/ \E c \in Callers : GetTicketAccesoStart(c, Tenant, TenantService, FALSE)
    \/ \E c \in Callers : \E reply \in Replies(calls[c].reqId) :
          ReceiveReply(c, reply, FALSE)
    \/ ClearCache(Tenant, TenantService)
    \/ last = NoCall /\ IngestPfx(Tenant, "27222222223", TenantPfx, "none")
    \/ last = NoCall /\ IngestCrtKey(Tenant, TenantCertificate, [parses |-> TRUE], "none")
    \/ last = NoCall /\ IngestCrt(Tenant, TenantCertificate, NoText, "none")
    \/ last = NoCall /\ GenerateCSR(Tenant, "none")
    \/ last = NoCall /\ DeleteCertificate(Tenant) /\ last'.returned.success
    \/ Tick
    \/ Resume

TenantSpec == TenantInit /\ [][TenantNext]_vars

\* ------------------------------------------------------ tax id validation
\* The characters normalizarDocumento removes: "-" and white space (\s).
Separators == {"-", " ", "\t"}

\* documento.replace(/[-\s]/g, '')
NormalizarDocumento(documento) ==
    LET kept(ch) == ch \notin Separators
    IN  SelectSeq(documento, kept)

\* Number(ch) of a digit character.
DigitValue(ch) == (CHOOSE k \in DOMAIN DigitChars : DigitChars[k] = ch) - 1

Multiplicadores == <<5, 4, 3, 2, 7, 6, 5, 4, 3, 2>>

\* suma += digitos[i] * multiplicadores[i], for the first ten digits.
RECURSIVE Suma(_, _)
Suma(digitos, i) ==
    IF i = 0 THEN 0
    ELSE Suma(digitos, i - 1) + digitos[i] * Multiplicadores[i]

\* Variant: the check digit is compared with resultado in every case.
DigitoCoincideSinCasos(resultado, digitoVerificador) ==
    digitoVerificador = resultado

\* The three returns at the end of validarCUIT.
DigitoCoincide(resultado, digitoVerificador) ==
    IF resultado = 11 THEN digitoVerificador = 0
    ELSE IF resultado = 10 THEN digitoVerificador = 9
    ELSE digitoVerificador = resultado

\* Variant: a tax id must also begin with 20, 23, 24, 27, 30, 33 or 34.
ValidarCUITConPrefijo(cuit) ==
    LET cuitLimpio == NormalizarDocumento(cuit)
    IN  IF Len(cuitLimpio) # CuitLength
           \/ \E i \in DOMAIN cuitLimpio : ~IsDigitChar(cuitLimpio[i])
        THEN FALSE
        ELSE LET digitos == [i \in DOMAIN cuitLimpio |-> DigitValue(cuitLimpio[i])]
                 resto == Suma(digitos, 10) % 11
             IN  /\ <<digitos[1], digitos[2]>> \in
                       {<<2, 0>>, <<2, 3>>, <<2, 4>>, <<2, 7>>,
                        <<3, 0>>, <<3, 3>>, <<3, 4>>}
                 /\ DigitoCoincide(11 - resto, digitos[11])

\* validarCUIT(cuit)
ValidarCUIT(cuit) ==
    LET cuitLimpio == NormalizarDocumento(cuit)
    IN  IF Len(cuitLimpio) # CuitLength
           \/ \E i \in DOMAIN cuitLimpio : ~IsDigitChar(cuitLimpio[i])
        THEN FALSE
        ELSE LET digitos == [i \in DOMAIN cuitLimpio |-> DigitValue(cuitLimpio[i])]
                 resto == Suma(digitos, 10) % 11
             IN  DigitoCoincide(11 - resto, digitos[11])

\* The text of a sequence of digits.
TextOfDigits(digits) == [i \in DOMAIN digits |-> DigitChars[digits[i] + 1]]

\* Eleven-digit candidates: a two-digit prefix, of the types in use (20, 23,
\* 24, 27, 30, 33, 34) or not (15, 99), eight equal digits, and any last
\* digit; and the tax ids of the tests.
CuitPrefixes ==
    {<<2, 0>>, <<2, 3>>, <<2, 4>>, <<2, 7>>, <<3, 0>>, <<3, 3>>, <<3, 4>>,
     <<1, 5>>, <<9, 9>>}
ElevenDigitTexts ==
    {TextOfDigits(prefix \o [i \in 1..8 |-> k] \o <<d>>) :
        prefix \in CuitPrefixes, k \in 0..9, d \in 0..9}
    \cup {TextOfDigits(<<3, 3, 6, 9, 3, 4, 5, 0, 2, 3, 9>>),
          TextOfDigits(<<1, 5, 1, 2, 3, 4, 5, 6, 7, 8, 9>>),
          TextOfDigits(<<1, 5, 1, 2, 3, 4, 5, 6, 7, 8, 2>>)}

\* A candidate written with separators.
Separated(text, sep) ==
    SubSeq(text, 1, 2) \o <<sep>> \o SubSeq(text, 3, 10) \o <<sep>>
        \o SubSeq(text, 11, 11)

\* What validarCUIT is given: the candidates, some of them written with
\* hyphens, blanks, tabs or slashes, cut short, lengthened or with a letter,
\* the empty text and a text of blanks.
CuitInputs ==
    ElevenDigitTexts
    \cup {Separated(TextOfDigits(prefix \o [i \in 1..8 |-> 1] \o <<d>>), sep) :
             prefix \in CuitPrefixes, d \in 0..9, sep \in {"-", " ", "\t", "/"}}
    \cup {SubSeq(TextOfDigits(prefix \o [i \in 1..8 |-> 1] \o <<d>>), 1, 10) :
             prefix \in CuitPrefixes, d \in 0..9}
    \cup {TextOfDigits(prefix \o [i \in 1..8 |-> 1] \o <<d>>) \o <<"0">> :
             prefix \in CuitPrefixes, d \in 0..9}
    \cup {[TextOfDigits(prefix \o [i \in 1..8 |-> 1] \o <<d>>) EXCEPT ![3] = "a"] :
             prefix \in CuitPrefixes, d \in 0..9}
    \cup {<<>>, [i \in 1..11 |-> " "]}

\* validarCUIT about to be called with `cuit`, and called.
PendingCuit(cuit) == [step |-> "call validarCUIT", cuit |-> cuit]
ValidatedCuit(cuit) ==
    [step |-> "validarCUIT", cuit |-> cuit, returned |-> ValidarCUIT(cuit)]

CuitInit ==
    /\ now = 0
    /\ ticketCache = EmptyMap
    /\ cacheFiles = EmptyMap
    /\ certsCache = EmptyMap
    /\ certFiles = [b \in Businesses |-> GoodCertDir]
    /\ calls = [c \in Callers |-> IdleCall]
    /\ reqCount = 0
    /\ last \in {PendingCuit(cuit) : cuit \in CuitInputs}

\* validarCUIT runs.
ValidateCuit ==
    /\ last.step = "call validarCUIT"
    /\ last' = ValidatedCuit(last.cuit)
    /\ UNCHANGED <<now, ticketCache, cacheFiles, certsCache, certFiles, calls, reqCount>>

CuitSpec == CuitInit /\ [][ValidateCuit]_vars

\* ================================================================ properties
\* The key of the call whose step `last` records.
LastKey == CacheKey(last.businessId, last.service)

\* expirationTime - 5 min is strictly later than the current minute.
MoreThanFiveMinutesLeft(expirationTime) ==
    expirationTime * 60 * 1000 - 5 * 60 * 1000 > now * 60 * 1000

\* The memory tier has nothing usable under key: no entry, or an expired one.
MemoryMisses(key) ==
    key \in DOMAIN ticketCache =>
        ~MoreThanFiveMinutesLeft(ticketCache[key].expirationTime)

\* The disk tier holds a ticket record under key.
DiskHolds(key) == key \in DOMAIN cacheFiles /\ IsJsonTicket(cacheFiles[key])

\* A ticket with its three fields.
WellFormed(ticket) ==
    /\ ticket.token # Missing
    /\ ticket.sign # Missing
    /\ ticket.expirationTime # InvalidDate

\* ------------------------------------------------------------------------ C1
\* C1: a ticket getTicketAcceso returns from the memory tier or from the disk
\* tier has its expirationTime minus 5 minutes strictly later than the
\* current time; a cached ticket with 5 minutes or less left is not returned.
C1_CachedTicketReturnedOnlyIfUsable ==
    (last.step = "start" /\ last.ended /\ last.source \in {"memory", "disk"}) =>
        /\ ~last.settled.threw
        /\ MoreThanFiveMinutesLeft(last.settled.value.expirationTime)

\* A ticket with 6 minutes left is served from memory.
C1_Witness ==
    /\ last.step = "start" /\ last.ended /\ last.source = "memory"
    /\ last.settled.value.expirationTime = now + 6

\* ------------------------------------------------------------------------ C2
\* C2: when both tiers miss and the certificate store has no certificate for
\* the tenant, getTicketAcceso returns null and sends no request; no request
\* is ever in flight for a call that found no certificate.
C2_NoCertificateNoRequest ==
    /\ (last.step = "start" /\ last.source = "acquisition" /\ last.certInfo = Null) =>
          /\ last.ended
          /\ last.settled = Returned(Null)
          /\ last.sent = 0
    /\ \A c \in Callers : calls[c].pc = "awaitHttp" => calls[c].certInfo # Null

\* A call misses both tiers, looks the certificate up and finds none.
C2_Witness ==
    /\ last.step = "start" /\ last.ended
    /\ last.seen = [memory |-> "miss", disk |-> "miss"]
    /\ last.lookups = 1 /\ last.certInfo = Null
    /\ last.failure = "No certificate found"
    /\ reqCount = 0

\* ------------------------------------------------------------------------ C3
\* C3 as stated: when an acquisition succeeds, right after the call the
\* memory tier and the disk record of the key both hold the returned ticket.
C3_BothTiersHoldTicket ==
    (last.step = "reply" /\ last.settled.value # Null) =>
        /\ LastKey \in DOMAIN ticketCache
        /\ ticketCache[LastKey] = last.settled.value
        /\ LastKey \in DOMAIN cacheFiles
        /\ cacheFiles[LastKey] = JsonOfTicket(last.settled.value)

\* C3 amended: when an acquisition succeeds, right after the call the memory
\* tier holds the returned ticket under the key, and the key's disk record
\* holds it too unless writing the file failed (the failure is only logged).
C3_MemoryHoldsTicketDiskUnlessWriteFails ==
    (last.step = "reply" /\ last.settled.value # Null) =>
        /\ LastKey \in DOMAIN ticketCache
        /\ ticketCache[LastKey] = last.settled.value
        /\ ~last.fsError =>
              /\ LastKey \in DOMAIN cacheFiles
              /\ cacheFiles[LastKey] = JsonOfTicket(last.settled.value)

\* An acquisition succeeded and both tiers hold its ticket.
C3_Witness ==
    /\ last.step = "reply" /\ last.settled.value # Null /\ ~last.fsError
    /\ ticketCache[LastKey] = last.settled.value
    /\ cacheFiles[LastKey] = JsonOfTicket(last.settled.value)

\* ------------------------------------------------------------------------ C4
\* C4 as stated: if a tier holds, when getTicketAcceso is called, a ticket of
\* the key with 5 minutes or less left, the first step of the call (which
\* ends with the request leaving, or with the call's return) removes that
\* entry from that tier.
C4_ExpiredEntriesRemoved ==
    [][last'.step = "start" =>
          LET key == CacheKey(last'.businessId, last'.service)
          IN  /\ (key \in DOMAIN ticketCache
                  /\ ~MoreThanFiveMinutesLeft(ticketCache[key].expirationTime))
                   => \/ key \notin DOMAIN ticketCache'
                      \/ ticketCache'[key] # ticketCache[key]
              /\ (DiskHolds(key)
                  /\ ~MoreThanFiveMinutesLeft(
                          DateFromISO(cacheFiles[key].expirationTime)))
                   => key \notin DOMAIN cacheFiles'
    ]_vars

\* C4 amended: an expired memory entry of the key is removed by the first
\* step of the call, before any request leaves; an expired disk record is
\* deleted in that step when the memory tier gave no usable ticket, unless
\* the unlink fails: the failure is swallowed, the record stays and the call
\* goes on to the acquisition.
C4_ExpiredRemovedUnlessUnlinkFails ==
    [][last'.step = "start" =>
          LET key == CacheKey(last'.businessId, last'.service)
          IN  /\ (key \in DOMAIN ticketCache
                  /\ ~MoreThanFiveMinutesLeft(ticketCache[key].expirationTime))
                   => \/ key \notin DOMAIN ticketCache'
                      \/ ticketCache'[key] # ticketCache[key]
              /\ (MemoryMisses(key) /\ DiskHolds(key)
                  /\ ~MoreThanFiveMinutesLeft(
                          DateFromISO(cacheFiles[key].expirationTime)))
                   => \/ key \notin DOMAIN cacheFiles'
                      \/ /\ last'.fsError
                         /\ cacheFiles' = cacheFiles
                         /\ last'.source = "acquisition"
    ]_vars

\* A call finds an expired ticket in both tiers, removes both and sends its
\* request.
C4_Witness ==
    /\ last.step = "start" /\ ~last.ended /\ last.sent = 1
    /\ last.seen = [memory |-> "stale", disk |-> "stale"]
    /\ LastKey \in last.dropped /\ LastKey \in last.unlinked
    /\ LastKey \notin DOMAIN ticketCache /\ LastKey \notin DOMAIN cacheFiles

\* ------------------------------------------------------------------------ C5
\* C5: on a memory miss, when the key's disk record has more than 5 minutes
\* left, getTicketAcceso returns the record's token, sign and expirationTime,
\* stores the ticket in the memory tier under the key, and makes no
\* certificate lookup and no request.
C5_DiskHitServedAndPromoted ==
    [][(/\ last'.step = "start"
        /\ MemoryMisses(CacheKey(last'.businessId, last'.service))
        /\ DiskHolds(CacheKey(last'.businessId, last'.service))
        /\ MoreThanFiveMinutesLeft(DateFromISO(
              cacheFiles[CacheKey(last'.businessId, last'.service)].expirationTime)))
       => LET key == CacheKey(last'.businessId, last'.service)
              record == cacheFiles[key]
              got == last'.settled
          IN  /\ last'.ended /\ ~got.threw
              /\ got.value.token = record.token
              /\ got.value.sign = record.sign
              /\ ToISOString(got.value.expirationTime) = record.expirationTime
              /\ key \in DOMAIN ticketCache'
              /\ ticketCache'[key] = got.value
              /\ last'.lookups = 0 /\ last'.sent = 0
              /\ reqCount' = reqCount /\ certsCache' = certsCache
              /\ calls' = calls /\ cacheFiles' = cacheFiles
    ]_vars

\* A call is served from the disk record and the memory tier now holds it.
C5_Witness ==
    /\ last.step = "start" /\ last.ended /\ last.source = "disk"
    /\ last.seen = [memory |-> "miss", disk |-> "fresh"]
    /\ last.settled.value.token = PriorTicket.token
    /\ last.settled.value.sign = PriorTicket.sign
    /\ ticketCache[LastKey] = last.settled.value
    /\ reqCount = 0

\* ------------------------------------------------------------------------ C6
\* C6 as stated: getTicketAcceso never throws, and every failure, an
\* unreadable disk record included, resolves to null.
C6_EveryFailureResolvesToNull ==
    (last.step \in {"start", "reply"} /\ last.ended) =>
        /\ ~last.settled.threw
        /\ (last.failure # "none" \/ last.seen.disk = "corrupt")
              => last.settled.value = Null

\* C6 amended: getTicketAcceso never throws; every failure of the acquisition
\* (missing certificate, signing error, network error or timeout, error
\* status, authority fault, already issued, malformed response) resolves to
\* null, so that what is returned is null or a ticket with its three fields.
\* An unreadable disk record does not fail the call: it is taken as a miss
\* and the call returns what the acquisition gives.
C6_NeverThrowsAcquisitionFailureIsNull ==
    (last.step \in {"start", "reply"} /\ last.ended) =>
        /\ ~last.settled.threw
        /\ last.failure # "none" => last.settled.value = Null
        /\ last.settled.value # Null => WellFormed(last.settled.value)

\* A call whose reply lacks a field ends with null.
C6_Witness ==
    /\ last.step = "reply" /\ last.ended
    /\ last.failure = "Missing token, sign or expirationTime in TA"
    /\ last.settled = Returned(Null)

\* ------------------------------------------------------------------------ C7
\* C7: an invocation of getTicketAcceso sends at most one loginCms request;
\* whatever the reply, the step that receives it ends the call and sends
\* nothing.
C7_AtMostOneRequestPerCall ==
    [][\A c \in Callers :
          /\ calls'[c].sent <= 1
          /\ (calls[c].pc = "awaitHttp" /\ calls'[c] # calls[c]) =>
                /\ calls'[c] = IdleCall
                /\ reqCount' = reqCount
                /\ last'.step = "reply" /\ last'.ended /\ last'.sent = 1
    ]_vars

\* A call ends with null on the already-issued indicator, after one request.
C7_Witness ==
    /\ last.step = "reply" /\ last.ended /\ last.sent = 1
    /\ last.failure = "AFIP ya tiene un ticket valido cacheado en su servidor"
    /\ last.settled = Returned(Null)

\* ------------------------------------------------------------------------ C8
\* What C8 says of the requests: a call that finds no usable ticket and can
\* sign sends its own request, also while another call waits on a request
\* for the same key; two calls in flight wait on two different requests.
EachCallerSendsItsOwn ==
    /\ (last'.step = "start" /\ last'.source = "acquisition"
        /\ last'.failure = "none")
          => /\ ~last'.ended /\ last'.sent = 1
             /\ reqCount' = reqCount + 1
    /\ \A c, d \in Callers :
          (c # d /\ calls'[c].pc = "awaitHttp" /\ calls'[d].pc = "awaitHttp")
             => /\ calls'[c].reqId # calls'[d].reqId
                /\ calls'[c].sent = 1 /\ calls'[d].sent = 1

\* C8 as stated: concurrent callers that miss on the same key each send a
\* request, and each one that succeeds overwrites the key's memory entry and
\* its disk record, so that both tiers hold the ticket of the last completion.
C8_EachSuccessOverwritesBothTiers ==
    [][/\ EachCallerSendsItsOwn
       /\ (last'.step = "reply" /\ last'.settled.value # Null) =>
             LET key == CacheKey(last'.businessId, last'.service)
             IN  /\ key \in DOMAIN ticketCache => ticketCache'[key] = last'.settled.value
                 /\ key \in DOMAIN cacheFiles =>
                       cacheFiles'[key] = JsonOfTicket(last'.settled.value)
    ]_vars

\* C8 amended: concurrent callers that miss on the same key each send a
\* request; each one that succeeds overwrites the key's memory entry, and
\* overwrites its disk record unless writing the file fails, in which case
\* the record of an earlier completion stays.
C8_EachSuccessOverwritesMemoryDiskUnlessWriteFails ==
    [][/\ EachCallerSendsItsOwn
       /\ (last'.step = "reply" /\ last'.settled.value # Null) =>
             LET key == CacheKey(last'.businessId, last'.service)
             IN  /\ key \in DOMAIN ticketCache => ticketCache'[key] = last'.settled.value
                 /\ key \in DOMAIN cacheFiles =>
                       IF last'.fsError
                       THEN cacheFiles' = cacheFiles
                       ELSE cacheFiles'[key] = JsonOfTicket(last'.settled.value)
    ]_vars

\* A call that missed both tiers completes after another call for the same
\* key has stored its ticket, and replaces that ticket in both tiers.
C8_Witness ==
    /\ last.step = "reply" /\ last.settled.value # Null
    /\ last.seen = [memory |-> "miss", disk |-> "miss"]
    /\ LastKey \in last.dropped /\ LastKey \in last.unlinked
    /\ ticketCache[LastKey] = last.settled.value
    /\ cacheFiles[LastKey] = JsonOfTicket(last.settled.value)

\* ------------------------------------------------------------------------ C9
\* The keys a clearCache(businessId?, service?) call selects.
Selected(businessId, service, key) ==
    IF businessId # 0 /\ service # ""
    THEN key = Digits(businessId) \o <<"_", service>>
    ELSE IF businessId # 0
    THEN StartsWith(key, Digits(businessId) \o <<"_">>)
    ELSE TRUE

\* C9: after clearCache returns, at any of its three granularities, no entry
\* the selector matches is left in the memory tier and no record it matches
\* is left on disk.
C9_NothingSelectedRemains ==
    (last.step = "clearCache" /\ ~last.settled.threw) =>
        \A key \in (DOMAIN ticketCache) \cup (DOMAIN cacheFiles) :
            ~Selected(last.businessId, last.service, key)

\* clearCache(1) has returned on a process whose memory tier is empty, and
\* the record of tenant 1's billing ticket is still on disk.
C9_Witness ==
    /\ last.step = "clearCache" /\ ~last.settled.threw
    /\ last.businessId = 1 /\ last.service = ""
    /\ last.dropped = {} /\ last.unlinked = {}
    /\ ticketCache = EmptyMap
    /\ CacheKey(1, "wsfe") \in DOMAIN cacheFiles

\* ----------------------------------------------------------------------- C10
\* C10: clearCache(tenant, service) leaves the entries of every other key as
\* they were in both tiers, and clearCache(tenant) leaves the entries of
\* every other tenant as they were in both tiers.
C10_ClearCacheFrame ==
    [][(last'.step = "clearCache" /\ last'.businessId # 0) =>
          \A key \in (DOMAIN ticketCache) \cup (DOMAIN cacheFiles) :
              ~Selected(last'.businessId, last'.service, key) =>
                  /\ key \in DOMAIN ticketCache <=> key \in DOMAIN ticketCache'
                  /\ key \in DOMAIN ticketCache => ticketCache'[key] = ticketCache[key]
                  /\ key \in DOMAIN cacheFiles <=> key \in DOMAIN cacheFiles'
                  /\ key \in DOMAIN cacheFiles => cacheFiles'[key] = cacheFiles[key]
    ]_vars

\* clearCache(1) removes tenant 1's entries and tenant 11's ticket is still
\* in both tiers.
C10_Witness ==
    /\ last.step = "clearCache" /\ last.businessId = 1 /\ last.service = ""
    /\ last.dropped # {} /\ last.unlinked # {}
    /\ CacheKey(11, "wsfe") \in DOMAIN ticketCache
    /\ CacheKey(11, "wsfe") \in DOMAIN cacheFiles

\* ----------------------------------------------------------------------- C11
\* The entries a clearCache sweep that has just ended set out to remove: for
\* clearCache(tenant) the memory entries of the tenant (those it dropped and
\* those still there), for clearCache() every record of the directory.
SweepTargets ==
    IF last.businessId # 0
    THEN last.dropped \cup
         {key \in DOMAIN ticketCache :
             StartsWith(key, Digits(last.businessId) \o <<"_">>)}
    ELSE last.unlinked \cup DOMAIN cacheFiles

\* C11: during a clearCache sweep (a tenant's, or the global one), failure to
\* delete the disk record of one entry does not abort the sweep: of the
\* entries the sweep set out to remove, at most the one whose deletion failed
\* is left in a tier.
C11_SweepGoesOnAfterFailedUnlink ==
    (last.step = "clearCache" /\ last.service = "") =>
        Cardinality({key \in SweepTargets :
                        \/ key \in DOMAIN ticketCache
                        \/ key \in DOMAIN cacheFiles}) <= 1

\* clearCache(1) has thrown at the record of one of tenant 1's tickets, and
\* another ticket of tenant 1 is still in memory and on disk.
C11_Witness ==
    /\ last.step = "clearCache" /\ last.businessId = 1 /\ last.service = ""
    /\ last.settled.threw
    /\ \E failed \in last.dropped, other \in DOMAIN ticketCache :
          /\ failed \in DOMAIN cacheFiles
          /\ other # failed
          /\ StartsWith(other, Digits(1) \o <<"_">>)
          /\ other \in DOMAIN cacheFiles

\* ----------------------------------------------------------------------- C12
\* A tier holds under key a ticket getTicketAcceso would return now.
HoldsUsableTicket(key) ==
    \/ /\ key \in DOMAIN ticketCache
       /\ MoreThanFiveMinutesLeft(ticketCache[key].expirationTime)
    \/ /\ DiskHolds(key)
       /\ MoreThanFiveMinutesLeft(DateFromISO(cacheFiles[key].expirationTime))

\* C12: once the DELETE /afip/cache handler has answered success for a
\* tenant, or for a tenant and a service, the shared service holds under no
\* matching key a ticket that the next getTicketAcceso would return without
\* acquiring a new one.
C12_HandlerSuccessForcesNewAcquisition ==
    (/\ last.step = "clearCacheHandler"
     /\ last.settled.value.success
     /\ last.businessId # 0) =>
        \A key \in (DOMAIN ticketCache) \cup (DOMAIN cacheFiles) :
            Selected(last.businessId, last.service, key) => ~HoldsUsableTicket(key)

\* The handler has answered success for tenant 1 and service wsfe and has
\* deleted the key's record, and the shared memory tier still holds the
\* ticket under the key, with more than 5 minutes left.
C12_Witness ==
    /\ last.step = "clearCacheHandler" /\ last.settled.value.success
    /\ last.businessId = 1 /\ last.service = "wsfe"
    /\ last.unlinked = {CacheKey(1, "wsfe")}
    /\ CacheKey(1, "wsfe") \in DOMAIN ticketCache
    /\ MoreThanFiveMinutesLeft(ticketCache[CacheKey(1, "wsfe")].expirationTime)

\* ----------------------------------------------------------------------- C13
\* The step being taken leaves the fresh entry of key in the memory tier and
\* the fresh record of key on disk as they are, or is a clearCache that
\* removes them, or satisfies `otherwise` for the key.
FreshEntryKept(key, otherwise) ==
    /\ (key \in DOMAIN ticketCache
        /\ MoreThanFiveMinutesLeft(ticketCache[key].expirationTime))
          => \/ key \in DOMAIN ticketCache' /\ ticketCache'[key] = ticketCache[key]
             \/ key \notin DOMAIN ticketCache' /\ last'.step = "clearCache"
             \/ otherwise
    /\ (DiskHolds(key)
        /\ MoreThanFiveMinutesLeft(DateFromISO(cacheFiles[key].expirationTime)))
          => \/ key \in DOMAIN cacheFiles' /\ cacheFiles'[key] = cacheFiles[key]
             \/ key \notin DOMAIN cacheFiles' /\ last'.step = "clearCache"
             \/ otherwise

\* C13 as stated: a ticket stored for a key is not changed and not replaced
\* while it has more than 5 minutes left; while it is fresh the only thing
\* that can happen to it is its removal by clearCache.
C13_FreshTicketNeverOverwritten ==
    [][\A key \in (DOMAIN ticketCache) \cup (DOMAIN cacheFiles) :
          FreshEntryKept(key, FALSE)
    ]_vars

\* C13 amended: a ticket stored for a key with more than 5 minutes left is
\* never changed in place; it is removed only by clearCache, and replaced
\* only by the ticket of an acquisition for the same key that completes and
\* that had found no usable ticket in either tier when it started (a call
\* that was in flight when the ticket was stored).
C13_FreshTicketReplacedOnlyByConcurrentAcquisition ==
    [][\A key \in (DOMAIN ticketCache) \cup (DOMAIN cacheFiles) :
          FreshEntryKept(key,
              /\ last'.step = "reply"
              /\ key = CacheKey(last'.businessId, last'.service)
              /\ last'.settled.value # Null
              /\ last'.seen.memory \in {"miss", "stale"}
              /\ last'.seen.disk \in {"miss", "stale", "corrupt"}
              /\ ticketCache'[key] = last'.settled.value)
    ]_vars

\* A call that found the key's ticket stale in memory, and purged it, has
\* acquired a new ticket, which the memory tier now holds.
C13_Witness ==
    /\ last.step = "reply" /\ last.settled.value # Null
    /\ last.seen.memory = "stale"
    /\ ticketCache[LastKey] = last.settled.value
    /\ MoreThanFiveMinutesLeft(ticketCache[LastKey].expirationTime)

\* ----------------------------------------------------------------------- C14
\* C14: when writing the disk record fails after a successful acquisition,
\* getTicketAcceso still returns the acquired ticket and the memory tier
\* holds it under the key; and a call that finds in memory a ticket of its
\* key with more than 5 minutes left returns that ticket in its first step,
\* with no certificate lookup and no request.
C14_WriteFailureStillServesFromMemory ==
    [][/\ (last'.step = "reply" /\ last'.fsError) =>
             LET key == CacheKey(last'.businessId, last'.service)
             IN  /\ last'.ended /\ ~last'.settled.threw
                 /\ last'.settled.value # Null
                 /\ WellFormed(last'.settled.value)
                 /\ key \in DOMAIN ticketCache'
                 /\ ticketCache'[key] = last'.settled.value
       /\ (/\ last'.step = "start"
           /\ CacheKey(last'.businessId, last'.service) \in DOMAIN ticketCache
           /\ MoreThanFiveMinutesLeft(
                 ticketCache[CacheKey(last'.businessId, last'.service)].expirationTime))
          => /\ last'.ended /\ last'.source = "memory"
             /\ last'.settled =
                   Returned(ticketCache[CacheKey(last'.businessId, last'.service)])
             /\ last'.lookups = 0 /\ last'.sent = 0
             /\ reqCount' = reqCount /\ calls' = calls
             /\ ticketCache' = ticketCache /\ cacheFiles' = cacheFiles
    ]_vars

\* A call is served from memory a ticket of which the disk holds no record:
\* the write failed when the ticket was acquired.
C14_Witness ==
    /\ last.step = "start" /\ last.ended /\ last.source = "memory"
    /\ LastKey \notin DOMAIN cacheFiles
    /\ last.settled.value = ticketCache[LastKey]
    /\ reqCount = 1

\* ----------------------------------------------------------------------- C15
\* The reply carries one of the already-issued texts, anywhere.
CarriesAlreadyIssued(reply) ==
    IF reply.kind = "httpError"
    THEN (reply.head \cup reply.tail)
            \cap {"ya posee un TA valido", "alreadyAuthenticated"} # {}
    ELSE IF reply.kind = "data"
    THEN (reply.faultcode \cup reply.faultstring)
            \cap {"ya posee un TA valido", "alreadyAuthenticated"} # {}
    ELSE FALSE

\* C15: whenever the reply to loginCms carries the already-issued indicator,
\* whatever its transport status and wherever the text is in it, the
\* acquisition ends with the already-issued error and not with a generic
\* transport or fault error.
C15_AlreadyIssuedAlwaysRecognised ==
    (last.step = "requestTicketAcceso" /\ CarriesAlreadyIssued(last.reply)) =>
        last.ended = Thrown("AFIP ya tiene un ticket valido cacheado en su servidor")

\* A fault with a success status whose string holds the indicator has ended
\* the acquisition with the generic fault error.
C15_Witness ==
    /\ last.step = "requestTicketAcceso"
    /\ last.reply = FaultReply("soapenv", {}, {"ya posee un TA valido"})
    /\ last.ended = Thrown("AFIP WSAA Fault")

\* ----------------------------------------------------------------------- C16
\* The class of a fault by its code and string: the Untrusted test first.
FaultClass(reply) ==
    IF \/ "cms.cert.untrusted" \in reply.faultcode
       \/ "Certificado no emitido" \in reply.faultstring
    THEN "Untrusted"
    ELSE IF "expired" \in reply.faultstring \/ "expirado" \in reply.faultstring
    THEN "Expired"
    ELSE "Other"

\* The message of each class.
ClassMessage(class) ==
    CASE class = "Untrusted" -> "Certificado no confiable"
      [] class = "Expired" -> "Certificado expirado"
      [] class = "Other" -> "AFIP WSAA Fault"

\* C16: a fault in the authority's reply is classified as Untrusted when its
\* code contains 'cms.cert.untrusted' or its string 'Certificado no emitido',
\* otherwise as Expired when its string contains 'expired' or 'expirado',
\* otherwise as Other; the acquisition ends with the message of the class,
\* and the three messages differ.
C16_FaultClassified ==
    /\ \A c, d \in {"Untrusted", "Expired", "Other"} :
          c # d => ClassMessage(c) # ClassMessage(d)
    /\ (/\ last.step = "requestTicketAcceso"
        /\ last.reply.kind = "data"
        /\ last.reply.body = "fault")
          => last.ended = Thrown(ClassMessage(FaultClass(last.reply)))

\* An untrusted-certificate fault in a soap: envelope has ended the
\* acquisition with the invalid-structure error, unclassified.
C16_Witness ==
    /\ last.step = "requestTicketAcceso"
    /\ last.reply = FaultReply("soap", {"cms.cert.untrusted"}, {"Certificado no emitido"})
    /\ last.ended = Thrown("Invalid SOAP response structure")

\* ----------------------------------------------------------------------- C17
\* C17: after saveCertificateFromPfx succeeds for a tenant the cache holds
\* no entry of the tenant, and the next getCertificateInfo for the tenant
\* reads storage again and returns the tax id given to the ingestion and
\* the validFrom and validTo of the certificate in the container, also when
\* an older entry was cached before the ingestion.
C17_LookupAfterIngestionReturnsIngested ==
    /\ (last.step = "saveCertificateFromPfx" /\ last.returned)
          => last.businessId \notin DOMAIN certsCache
    /\ (/\ last.step = "getCertificateInfo"
        /\ last.prev.step = "saveCertificateFromPfx"
        /\ last.prev.businessId = last.businessId
        /\ last.prev.returned)
          => /\ ~last.hit /\ last.reads = 1
             /\ last.returned # Null
             /\ last.returned.cuit = last.prev.input.cuit
             /\ last.returned.validFrom =
                   [defined |-> TRUE, t |-> last.prev.input.pfx.notBefore]
             /\ last.returned.validTo =
                   [defined |-> TRUE, t |-> last.prev.input.pfx.notAfter]

\* A lookup right after an ingestion that found an older entry of the tenant
\* in the cache returns the new tax id and the new end of validity.
C17_Witness ==
    /\ last.step = "getCertificateInfo"
    /\ last.prev.step = "saveCertificateFromPfx"
    /\ last.prev.returned /\ last.prev.cached
    /\ last.returned.cuit = "27222222223"
    /\ last.returned.validTo = [defined |-> TRUE, t |-> MaxNow + 1]

\* ----------------------------------------------------------------------- C18
\* C18: of two consecutive getCertificateInfo calls for a tenant, when the
\* first returned a certificate that is still unexpired at the second (no
\* ingestion and no expiry in between), the second returns the same data and
\* is served from the cache: the two calls together read info.json at most
\* once, and the second does not read it.
C18_SecondLookupServedFromCache ==
    (/\ last.step = "getCertificateInfo"
     /\ last.prev.step = "getCertificateInfo"
     /\ last.prev.businessId = last.businessId
     /\ last.prev.returned # Null
     /\ last.prev.returned.validTo.defined
     /\ last.prev.returned.validTo.t * 60 * 1000 > last.at * 60 * 1000)
        => /\ last.returned = last.prev.returned
           /\ last.hit /\ last.reads = 0
           /\ last.prev.reads + last.reads <= 1

\* A first lookup has read info.json and, a minute later, a second one has
\* been answered by the cache.
C18_Witness ==
    /\ last.step = "getCertificateInfo"
    /\ last.prev.step = "getCertificateInfo"
    /\ last.prev.reads = 1 /\ last.prev.returned # Null
    /\ last.at = 1
    /\ last.hit /\ last.reads = 0
    /\ last.returned = last.prev.returned

\* ----------------------------------------------------------------------- C19
\* C19: when the cache does not answer (no entry, or an expired one),
\* getCertificateInfo returns null if info.json, cert.pem or key.pem is
\* missing or info.json does not parse, and then leaves no entry of the
\* tenant in the cache; an error raised on the way is caught and gives null.
C19_MissingMaterialGivesNullAndNoEntry ==
    (last.step = "getCertificateInfo" /\ ~last.hit) =>
        LET dir == certFiles[last.businessId]
        IN  /\ (\/ ~dir.info.exists \/ ~dir.info.parses
                \/ dir.cert = "missing" \/ dir.key = "missing")
                  => /\ last.returned = Null
                     /\ last.businessId \notin DOMAIN certsCache
            /\ last.failure # "none" => last.returned = Null

\* A lookup found the tenant's cached entry expired and key.pem gone while
\* info.json and cert.pem are there: it returned null and the cache holds
\* no entry of the tenant.
C19_Witness ==
    /\ last.step = "getCertificateInfo" /\ last.cached /\ ~last.hit
    /\ certFiles[last.businessId].info.exists
    /\ certFiles[last.businessId].cert = "ok"
    /\ certFiles[last.businessId].key = "missing"
    /\ last.returned = Null
    /\ last.businessId \notin DOMAIN certsCache

C21_UndecodablePfxChangesNothing ==
    [][(/\ last' # last
        /\ last'.step = "saveCertificateFromPfx"
        /\ \/ ~last'.input.pfx.decodes
           \/ ~last'.input.pfx.certBag
           \/ ~last'.input.pfx.keyBag)
       => /\ last'.returned = FALSE
          /\ certFiles' = certFiles
          /\ certsCache' = certsCache]_vars

\* A container without its key bag was refused for a tenant that has stored
\* material and a cached entry, both of which are still there.
C21_Witness ==
    /\ last.step = "saveCertificateFromPfx"
    /\ last.input.pfx.decodes
    /\ ~last.input.pfx.keyBag
    /\ last.returned = FALSE
    /\ last.cached
    /\ last.businessId \in DOMAIN certsCache
    /\ certFiles[last.businessId] = GoodCertDir

\* ----------------------------------------------------------------------- C22
\* The three ingestion operations of the certificate store.
IngestionSteps ==
    {"saveCertificateFromPfx", "saveCertificateFromCrtKey", "saveCertificateFromCrt"}

\* C22: an ingestion operation (saveCertificateFromPfx,
\* saveCertificateFromCrtKey, saveCertificateFromCrt) never throws to its
\* caller: whatever fails in it, it ends by returning a boolean, false for
\* the failure.
C22_IngestionNeverThrows ==
    last.step \in IngestionSteps => ~last.threw

\* saveCertificateFromCrt ended by throwing for a file that is no
\* certificate.
C22_Witness ==
    /\ last.step = "saveCertificateFromCrt"
    /\ ~last.input.certificate.parses
    /\ last.threw
    /\ last.returned = Thrown("No se pudo leer el certificado")

\* ----------------------------------------------------------------------- C23
\* C23 as stated: after a successful ingestion by any of the three
\* operations, every one of cert.pem, key.pem, info.json and cert.pfx that
\* the tenant directory holds was written by that ingestion: nothing of an
\* earlier upload is left.
C23_SuccessfulIngestionReplacesEverything ==
    (last.step \in IngestionSteps /\ ~last.threw /\ last.returned)
        => ExistingFiles(certFiles[last.businessId]) \subseteq last.wrote

\* C23, amended: a successful ingestion leaves cert.pem, key.pem and
\* info.json in the tenant directory and has written cert.pem and info.json
\* itself.  saveCertificateFromPfx has also written key.pem, and no cert.pfx:
\* one of an earlier upload stays.  saveCertificateFromCrtKey has written
\* key.pem and cert.pfx.  saveCertificateFromCrt has written cert.pfx, and
\* key.pem only when the directory had none: a key.pem that was there, of an
\* earlier upload or not, is kept and combined with the new certificate.
C23_SuccessfulIngestionWritesItsFiles ==
    (last.step \in IngestionSteps /\ ~last.threw /\ last.returned)
        => /\ {"cert.pem", "key.pem", "info.json"}
                  \subseteq ExistingFiles(certFiles[last.businessId])
           /\ last.wrote =
                 IF last.step = "saveCertificateFromPfx"
                 THEN {"cert.pem", "key.pem", "info.json"}
                 ELSE IF last.step = "saveCertificateFromCrtKey"
                 THEN {"cert.pem", "key.pem", "cert.pfx", "info.json"}
                 ELSE IF last.hadKey
                 THEN {"cert.pem", "cert.pfx", "info.json"}
                 ELSE {"cert.pem", "key.pem", "cert.pfx", "info.json"}

\* saveCertificateFromCrt succeeded for a tenant that had a key.pem, which it
\* did not write: the new certificate stands beside the earlier key.
C23_Witness ==
    /\ last.step = "saveCertificateFromCrt"
    /\ ~last.threw
    /\ last.hadKey
    /\ "key.pem" \notin last.wrote
    /\ certFiles[last.businessId].key = "ok"
    /\ certFiles[last.businessId].cert = "ok"

\* ----------------------------------------------------------------------- C24
\* The value of the subject attribute called `name`, NoText without one.
SubjectValue(certificate, name) ==
    LET a == FindAttribute(certificate.subject, name)
    IN  IF a = Null THEN NoText ELSE a.value

\* The first match in the order of the statement: the serialNumber attribute,
\* the common name, the known attribute names, the rendered subject, the
\* rendered issuer.
FirstMatchInOrder(certificate) ==
    LET steps == <<MatchCuit(SubjectValue(certificate, "serialNumber")),
                   MatchCuit(SubjectValue(certificate, "commonName")),
                   KnownFieldMatch(certificate.subject, KnownCuitFieldsCrtKey),
                   MatchCuit(RenderName(certificate.subject)),
                   MatchCuit(RenderName(certificate.issuer))>>
        hits == {i \in DOMAIN steps : steps[i] # NoText}
    IN  IF hits = {} THEN NoText
        ELSE steps[CHOOSE i \in hits : \A k \in hits : i <= k]

\* C24: the tax id saveCertificateFromCrtKey records is the first 11-digit
\* match in the order subject serialNumber, subject common name, known
\* subject attribute names, rendered subject, rendered issuer, so that the
\* serialNumber number is taken when the common name holds one too; when no
\* step matches, the ingestion fails.
C24_TaxIdIsFirstMatchInOrder ==
    (/\ last.step = "saveCertificateFromCrtKey"
     /\ last.input.certificate.parses
     /\ last.input.key.parses)
        => /\ FirstMatchInOrder(last.input.certificate) = NoText => last.threw
           /\ ~last.threw =>
                 certFiles[last.businessId].info.cuit
                     = FirstMatchInOrder(last.input.certificate)

\* A certificate whose serialNumber holds one tax id and whose common name
\* holds another was ingested, and info.json has the one of the common name.
C24_Witness ==
    /\ last.step = "saveCertificateFromCrtKey"
    /\ ~last.threw
    /\ MatchCuit(SubjectValue(last.input.certificate, "serialNumber")) = CuitA
    /\ MatchCuit(SubjectValue(last.input.certificate, "commonName")) = CuitB
    /\ certFiles[last.businessId].info.cuit = CuitB

\* ----------------------------------------------------------------------- C25
\* C25: when saveCertificateFromCrt is given a tax id, info.json records that
\* value with its non-digits removed, whatever number the certificate
\* encodes; a given value that does not have exactly 11 digits makes the
\* ingestion fail, with no info.json written, instead of falling back to the
\* extraction from the certificate.
C25_SuppliedTaxIdWins ==
    (/\ last.step = "saveCertificateFromCrt"
     /\ last.input.providedCuit # NoText)
        => IF Len(CleanCuit(last.input.providedCuit)) = CuitLength
           THEN ~last.threw =>
                    certFiles[last.businessId].info.cuit
                        = CleanCuit(last.input.providedCuit)
           ELSE last.threw /\ "info.json" \notin last.wrote

\* A certificate that encodes one tax id was ingested with another one
\* supplied, written with hyphens, and info.json has the supplied digits.
C25_Witness ==
    /\ last.step = "saveCertificateFromCrt"
    /\ ~last.threw
    /\ last.input.providedCuit = Hyphenated(CuitB)
    /\ CuitFromSubject(last.input.certificate.subject, KnownCuitFieldsCrt) = CuitA
    /\ certFiles[last.businessId].info.cuit = CuitB

\* ----------------------------------------------------------------------- C26
\* A text without its hyphens and white space.
WithoutSeparators(text) ==
    LET kept(ch) == ch # "-" /\ ch # " " /\ ch # "\t"
    IN  SelectSeq(text, kept)

IsElevenDigits(text) ==
    /\ Len(text) = 11
    /\ \A i \in 1..Len(text) : IsDigitChar(text[i])

\* 11 - (sum mod 11) over the first ten digits with the weights
\* 5,4,3,2,7,6,5,4,3,2, where 11 stands for 0 and 10 for 9.
CheckDigit(text) ==
    LET weights == <<5, 4, 3, 2, 7, 6, 5, 4, 3, 2>>
        value(i) == DigitValue(text[i]) * weights[i]
        sum == value(1) + value(2) + value(3) + value(4) + value(5)
                 + value(6) + value(7) + value(8) + value(9) + value(10)
        r == 11 - (sum % 11)
    IN  IF r = 11 THEN 0 ELSE IF r = 10 THEN 9 ELSE r

\* C26: validarCUIT returns true for a text of eleven digits (hyphens and
\* white space apart) exactly when its eleventh digit is the check digit of
\* its first ten, and false for every other text.
C26_ValidIffCheckDigitMatches ==
    last.step = "validarCUIT" =>
        LET text == WithoutSeparators(last.cuit)
        IN  last.returned
                = (/\ IsElevenDigits(text)
                   /\ DigitValue(text[11]) = CheckDigit(text))

\* A tax id whose weighted sum leaves remainder 1, so that its check digit
\* is 9, was accepted.
C26_Witness ==
    /\ last.step = "validarCUIT"
    /\ IsElevenDigits(last.cuit)
    /\ Suma([i \in 1..10 |-> DigitValue(last.cuit[i])], 10) % 11 = 1
    /\ last.cuit[11] = "9"
    /\ last.returned

\* ----------------------------------------------------------------------- C27
\* The two-digit prefixes of the statement.
ValidPrefixes ==
    {<<"2", "0">>, <<"2", "3">>, <<"2", "4">>, <<"2", "7">>,
     <<"3", "0">>, <<"3", "3">>, <<"3", "4">>}

HasInvalidPrefix(text) ==
    /\ IsElevenDigits(text)
    /\ SubSeq(text, 1, 2) \notin ValidPrefixes

AcquisitionFailed(record) ==
    /\ record.step \in {"start", "reply"}
    /\ record.ended
    /\ record.source = "acquisition"
    /\ record.failure # "none" \/ record.settled = Returned(Null)

\* C28 as stated: after a getTicketAcceso call whose acquisition failed, the
\* in-memory tier has no entry for the call's key.
C28_FailedAcquisitionLeavesNoEntry ==
    AcquisitionFailed(last) => LastKey \notin DOMAIN ticketCache

\* C28, amended: the step in which a getTicketAcceso call fails, whatever
\* the failure, adds no entry to either tier and replaces none; a call that
\* fails before sending leaves no entry in memory under its key, and a call
\* that fails at the reply leaves under its key only what was there when the
\* reply came, which is an entry when another call for the key stored one
\* while this call waited.
C28_FailedAcquisitionAddsNothing ==
    [][AcquisitionFailed(last')
       => /\ \A k \in DOMAIN ticketCache' :
                k \in DOMAIN ticketCache /\ ticketCache'[k] = ticketCache[k]
          /\ \A k \in DOMAIN cacheFiles' :
                k \in DOMAIN cacheFiles /\ cacheFiles'[k] = cacheFiles[k]
          /\ last'.step = "start"
                => CacheKey(last'.businessId, last'.service)
                       \notin DOMAIN ticketCache']_vars

\* A call ended with null on a reply that lacks its token; neither tier has
\* anything under its key.
C28_Witness ==
    /\ AcquisitionFailed(last)
    /\ last.step = "reply"
    /\ last.failure = "Missing token, sign or expirationTime in TA"
    /\ LastKey \notin DOMAIN ticketCache
    /\ LastKey \notin DOMAIN cacheFiles

\* ----------------------------------------------------------------------- C29
\* C29: every ticket getTicketAcceso returns, one just acquired from the
\* authority included, has its expirationTime minus 5 minutes strictly later
\* than the time of the return, and a ticket that is stored in the memory
\* tier or written to the disk tier has it at the time it is stored.
C29_ReturnedAndStoredTicketsAreUsable ==
    (/\ last.step \in {"start", "reply"}
     /\ last.ended
     /\ last.settled.value # Null)
        => /\ MoreThanFiveMinutesLeft(last.settled.value.expirationTime)
           /\ (last.source \in {"disk", "acquisition"}
                   /\ LastKey \in DOMAIN ticketCache)
                 => MoreThanFiveMinutesLeft(ticketCache[LastKey].expirationTime)
           /\ (last.source = "acquisition" /\ ~last.fsError)
                 => MoreThanFiveMinutesLeft(
                        TicketFromDisk(cacheFiles[LastKey]).expirationTime)

\* The authority issued a ticket that expires in 5 minutes; the call
\* returned it and both tiers hold it.
C29_Witness ==
    /\ last.step = "reply"
    /\ last.ended
    /\ last.settled.value # Null
    /\ last.settled.value.expirationTime = now + 5
    /\ ticketCache[LastKey] = last.settled.value
    /\ cacheFiles[LastKey] = JsonOfTicket(last.settled.value)

\* ----------------------------------------------------------------------- C30
\* C30: in one service instance, when every write and deletion on disk
\* succeeds, after any interleaving of getTicketAcceso and clearCache calls
\* every ticket the memory tier holds under a key has a disk record under
\* that key with the same token, sign and expirationTime.
C30_MemoryEntryHasSameDiskRecord ==
    \A key \in DOMAIN ticketCache :
        /\ key \in DOMAIN cacheFiles
        /\ IsJsonTicket(cacheFiles[key])
        /\ TicketFromDisk(cacheFiles[key]).token = ticketCache[key].token
        /\ TicketFromDisk(cacheFiles[key]).sign = ticketCache[key].sign
        /\ TicketFromDisk(cacheFiles[key]).expirationTime
              = ticketCache[key].expirationTime

\* A call that was in flight while another stored a ticket for the key has
\* stored its own over it, in memory and on disk.
C30_Witness ==
    /\ last.step = "reply"
    /\ last.settled.value # Null
    /\ LastKey \in last.dropped
    /\ LastKey \in last.unlinked
    /\ ticketCache[LastKey] = last.settled.value
    /\ cacheFiles[LastKey] = JsonOfTicket(last.settled.value)
\* ----------------------------------------------------------------------- C31
\* clearCache(businessId, service) has just returned, without an exception.
ClearReturned(businessId, service) ==
    /\ last.step = "clearCache"
    /\ last.businessId = businessId
    /\ last.service = service
    /\ ~last.settled.threw

AbsentFromBothTiers(key) ==
    key \notin DOMAIN ticketCache /\ key \notin DOMAIN cacheFiles

\* Caller c waits for the authority's answer to the only request sent so
\* far, for a key whose disk record it found unreadable when it started and
\* which is now in neither tier.  getTicketAcceso leaves an unreadable
\* record where it is, and no ticket was stored since (the one request is
\* still unanswered), so the record was removed by a clearCache call that
\* returned while c was in flight; no call can have started after that clear
\* and completed with a ticket, because it would have sent a second request.
ClearedWhileInFlight(c, businessId, service) ==
    /\ calls[c].pc = "awaitHttp"
    /\ calls[c].businessId = businessId
    /\ calls[c].service = service
    /\ calls[c].seen.disk = "corrupt"
    /\ reqCount = 1
    /\ AbsentFromBothTiers(CacheKey(businessId, service))

\* C31: once clearCache(tenant, service) has returned, the key stays absent
\* from both tiers until a getTicketAcceso call that started after the clear
\* completes: no step taken while an acquisition that was in flight when the
\* clear ran is still the only one to have sent a request puts the key back
\* into a tier, the arrival of that acquisition's ticket included.
C31_ClearedKeyStaysAbsent ==
    [][\A c \in Callers, r \in Requests :
          ClearedWhileInFlight(c, r[1], r[2])
             => AbsentFromBothTiers(CacheKey(r[1], r[2]))']_vars

\* clearCache has returned for a key of which it removed the memory entry
\* and the disk record, while a call for that key waits for the authority.
C31_Witness ==
    /\ \E r \in Requests :
          /\ ClearReturned(r[1], r[2])
          /\ \E c \in Callers :
                /\ calls[c].pc = "awaitHttp"
                /\ calls[c].businessId = r[1]
                /\ calls[c].service = r[2]
    /\ LastKey \in last.dropped
    /\ LastKey \in last.unlinked
    /\ AbsentFromBothTiers(LastKey)
\* ----------------------------------------------------------------------- C32
\* A getTicketAcceso call that found no usable memory entry and, on disk, a
\* record it could not read or parse.
FoundCorruptRecord(record) ==
    /\ record.step \in {"start", "reply"}
    /\ record.seen.disk = "corrupt"

\* The call went past the disk tier to requestTicketAcceso: it looked the
\* certificate up, and if it ended before sending, it ended on the
\* certificate, not on the record.
WentOnToAcquisition(record) ==
    /\ record.source = "acquisition"
    /\ record.lookups = 1
    /\ record.step = "start" /\ record.ended
          => record.failure \in {"No certificate found", "Error signing TRA"}
    /\ record.step = "start" /\ ~record.ended => record.sent = 1

\* C32 as stated: an unreadable or unparseable disk record is treated as a
\* miss, getTicketAcceso goes on to the acquisition instead of failing, and a
\* successful acquisition overwrites the corrupt record.
C32_CorruptRecordIsMissAndOverwritten ==
    FoundCorruptRecord(last)
        => /\ WentOnToAcquisition(last)
           /\ (last.step = "reply" /\ last.settled.value # Null)
                 => /\ LastKey \in DOMAIN cacheFiles
                    /\ cacheFiles[LastKey] = JsonOfTicket(last.settled.value)

\* C32, amended: an unreadable or unparseable disk record is treated as a
\* miss and getTicketAcceso goes on to the acquisition instead of failing; a
\* successful acquisition returns its ticket and keeps it in memory, and it
\* overwrites the record on disk unless that write fails too, in which case
\* the call replaces no file.
C32_CorruptRecordIsMissOverwrittenUnlessWriteFails ==
    FoundCorruptRecord(last)
        => /\ WentOnToAcquisition(last)
           /\ (last.step = "reply" /\ last.settled.value # Null)
                 => /\ ticketCache[LastKey] = last.settled.value
                    /\ ~last.fsError
                          => /\ LastKey \in DOMAIN cacheFiles
                             /\ cacheFiles[LastKey]
                                   = JsonOfTicket(last.settled.value)
                    /\ last.fsError => LastKey \notin last.unlinked

\* The only request sent so far came from a call that met a corrupt record;
\* its ticket has replaced the record.
C32_Witness ==
    /\ FoundCorruptRecord(last)
    /\ last.step = "reply"
    /\ last.settled.value # Null
    /\ reqCount = 1
    /\ LastKey \in last.unlinked
    /\ cacheFiles[LastKey] = JsonOfTicket(last.settled.value)
\* ----------------------------------------------------------------------- C33
StoreSteps ==
    {"saveCertificateFromPfx", "saveCertificateFromCrtKey",
     "saveCertificateFromCrt", "generateCSR", "deleteCertificate"}

\* C33: the certificate store operations (the three ingestions, generateCSR
\* and the deletion) leave both ticket tiers as they were, and a
\* getTicketAcceso call that finds a fresh ticket in memory returns that
\* ticket, whatever has become of the tenant's certificate since the ticket
\* was obtained, without looking the certificate up.
C33_StoreOperationsLeaveTicketTiers ==
    [][/\ last'.step \in StoreSteps
          => ticketCache' = ticketCache /\ cacheFiles' = cacheFiles
       /\ (/\ last'.step = "start"
           /\ CacheKey(last'.businessId, last'.service) \in DOMAIN ticketCache
           /\ IsTicketValid(ticketCache[CacheKey(last'.businessId, last'.service)]))
          => /\ last'.ended
             /\ last'.settled
                  = Returned(ticketCache[CacheKey(last'.businessId, last'.service)])
             /\ last'.lookups = 0
             /\ ticketCache' = ticketCache
             /\ cacheFiles' = cacheFiles]_vars

\* The tenant's certificate has been deleted, and a call is answered from
\* memory with a ticket that was acquired in this run, under the
\* certificate that is gone; the disk tier has its record too.
C33_Witness ==
    /\ last.step = "start"
    /\ last.source = "memory"
    /\ last.settled.value.token <= MaxRequests
    /\ certFiles[last.businessId] = NoCertDir
    /\ cacheFiles[LastKey] = JsonOfTicket(last.settled.value)
\* ----------------------------------------------------------------------- C34
\* The operation just made follows a deleteCertificate of the same tenant
\* that removed every file of the directory.
FollowsPurge(record) ==
    /\ record.prev.step = "deleteCertificate"
    /\ record.prev.businessId = record.businessId
    /\ record.prev.returned.success

\* C34: after deleteCertificate has purged a tenant's directory, the next
\* getCertificateInfo for the tenant returns not-found (null) and the next
\* isCertificateValid returns false, also when the tenant's certificate had
\* been looked up and cached before the deletion.
C34_NotFoundAfterDeletion ==
    /\ (last.step = "getCertificateInfo" /\ FollowsPurge(last))
          => last.returned = Null
    /\ (last.step = "isCertificateValid" /\ FollowsPurge(last))
          => last.returned = FALSE

\* The directory is empty after the deletion, the tenant's entry was in the
\* cache before it, and the lookup that follows is answered from the cache
\* with the deleted certificate.
C34_Witness ==
    /\ last.step = "getCertificateInfo"
    /\ FollowsPurge(last)
    /\ last.prev.cached
    /\ certFiles[last.businessId] = NoCertDir
    /\ last.hit
    /\ last.returned # Null
\* ----------------------------------------------------------------------- C35
\* The ingestion just made ended in failure: it threw, or returned false.
IngestionFailed(record) ==
    IF record.threw THEN TRUE ELSE record.returned = FALSE

FileOf(dir, f) ==
    IF f = "cert.pem" THEN dir.cert
    ELSE IF f = "key.pem" THEN dir.key
    ELSE IF f = "cert.pfx" THEN dir.pfx
    ELSE dir.csr

\* C36: when an ingestion fails after its first file write, the files it
\* wrote stay as written and the others as they were: the new cert.pem or
\* key.pem stands next to the previous info.json (or next to none), and the
\* tenant's entry in the cache is not invalidated.
C36_FailedIngestionIsNotRolledBack ==
    [][(/\ last'.step \in IngestionSteps
        /\ IngestionFailed(last')
        /\ last'.wrote # {})
          => /\ "info.json" \notin last'.wrote
             /\ certFiles'[last'.businessId].info = certFiles[last'.businessId].info
             /\ \A f \in {"cert.pem", "key.pem", "cert.pfx", "request.csr"} :
                   FileOf(certFiles'[last'.businessId], f)
                      = IF f \in last'.wrote THEN "ok"
                        ELSE FileOf(certFiles[last'.businessId], f)
             /\ certsCache' = certsCache]_vars

\* saveCertificateFromCrtKey failed at the write of cert.pfx, over a
\* directory with an info.json whose certificate is in the cache: cert.pem
\* and key.pem are the new ones, info.json and the cached entry the previous.
C36_Witness ==
    /\ last.step = "saveCertificateFromCrtKey"
    /\ last.threw
    /\ last.wrote = {"cert.pem", "key.pem"}
    /\ certFiles[last.businessId].info.exists
    /\ last.cached
    /\ last.businessId \in DOMAIN certsCache
\* ----------------------------------------------------------------------- C37
\* C37: after any sequence of ingestions and generateCSR calls, whenever
\* getCertificateInfo succeeds for a tenant, the key in key.pem is the one
\* that was supplied with the certificate in cert.pem or was already stored
\* when that certificate came; it is never a key generated or replaced
\* independently of the certificate.  So an operation that has just put a
\* key in key.pem, in a directory from which getCertificateInfo succeeds, is
\* an ingestion that was given that key and has written its certificate too.
C37_KeyBelongsToCertificate ==
    (/\ last.step \in IngestionSteps \cup {"generateCSR"}
     /\ "key.pem" \in last.wrote
     /\ GetCertificateInfo(last.businessId).certInfo # Null)
        => /\ last.step \in {"saveCertificateFromPfx", "saveCertificateFromCrtKey"}
           /\ "cert.pem" \in last.wrote

\* generateCSR has put a newly generated key in key.pem, next to the
\* cert.pem and info.json of an earlier ingestion, and getCertificateInfo
\* succeeds for the tenant.
C37_Witness ==
    /\ last.step = "generateCSR"
    /\ "key.pem" \in last.wrote
    /\ certFiles[last.businessId].cert = "ok"
    /\ certFiles[last.businessId].info.exists
    /\ GetCertificateInfo(last.businessId).certInfo # Null
\* ----------------------------------------------------------------------- C38
\* C38: when no tax id is supplied, saveCertificateFromCrt resolves the tax
\* id by the same chain as saveCertificateFromCrtKey: for every certificate
\* the two either extract the same tax id or both fail with
\* tax-id-not-found.
C38_BothPathsExtractTheSame ==
    last.step = "extraction"
        => /\ last.crt.threw = last.crtKey.threw
           /\ ~last.crtKey.threw => last.crt.cuit = last.crtKey.cuit

\* A certificate with no number in its subject and one in its issuer's name:
\* saveCertificateFromCrtKey takes the issuer's, saveCertificateFromCrt
\* throws.
C38_Witness ==
    /\ last.step = "extraction"
    /\ last.certificate.issuer = NumberedAuthorityName
    /\ last.crtKey = [threw |-> FALSE, cuit |-> CuitC]
    /\ last.crt.threw
\* ----------------------------------------------------------------------- C39
\* A successful reply under one of the three envelope prefixes, carrying
\* loginCmsResponse/loginCmsReturn with token, sign and expirationTime.
WellFormedLogin(reply) ==
    /\ reply.kind = "data"
    /\ reply.prefix \in {"soap", "soapenv", "env"}
    /\ reply.body = "login"
    /\ reply.loginReturn
    /\ reply.credentials
    /\ reply.token # Missing
    /\ reply.sign # Missing
    /\ reply.expirationTime.text = "iso"

\* C39: parseResponse accepts a well-formed successful reply under each of
\* the envelope prefixes it lists (soap:, soapenv:, env:): the reply yields
\* a ticket with exactly its token, sign and expirationTime.
C39_EveryPrefixAccepted ==
    (last.step = "requestTicketAcceso" /\ WellFormedLogin(last.reply))
        => last.ended = Returned(NewTicket(last.reply.token, last.reply.sign,
                                           last.reply.expirationTime.t))

\* A well-formed reply in a soap: envelope has been rejected for its
\* structure, and the acquisition has given null.
C39_Witness ==
    /\ last.step = "requestTicketAcceso"
    /\ WellFormedLogin(last.reply)
    /\ last.reply.prefix = "soap"
    /\ last.ended = Thrown("Invalid SOAP response structure")
    /\ last.settled = Returned(Null)
\* ----------------------------------------------------------------------- C40
\* C40: every signing request an acquisition builds carries a distinctive
\* uniqueId, so that no two acquisitions, concurrent ones for the same key
\* or for different keys included, send the same uniqueId; and each
\* request's expirationTime is exactly 12 hours after its generationTime,
\* its service the requested name.
C40_RequestsAreDistinct ==
    last.step = "generateTRA"
        => /\ last.tra[1].uniqueId # last.tra[2].uniqueId
           /\ \A i \in {1, 2} :
                 /\ DateFromISO(last.tra[i].expirationTime)
                       = DateFromISO(last.tra[i].generationTime)
                            + 12 * 60 * 60 * 1000
                 /\ last.tra[i].service = last.pair[i].service

\* Two acquisitions for different keys, 400 ms apart, have built requests
\* with the same uniqueId.
C40_Witness ==
    /\ last.step = "generateTRA"
    /\ last.pair[1].at = 0
    /\ last.pair[2].at = 400
    /\ last.pair[1].service # last.pair[2].service
    /\ last.tra[1].uniqueId = last.tra[2].uniqueId
====
